---- MODULE Spec2Model ----
(***************************************************************************)
(* A model of the Goodreads extraction and sampling scripts.               *)
(*                                                                         *)
(*   cascade  : process_reviews (count, select, extract), load_genres,     *)
(*              process_books, process_genres and main of the sampling     *)
(*              extractor (SAMPLE_USER_PERCENT).                           *)
(*   budget   : the interaction sampler (Extra_formattingcode.py), a       *)
(*              straight-line script of five steps.                        *)
(*   sample   : main and the five filters of sample.py.                    *)
(*   authors  : process_authors of the capped extractor.                   *)
(*                                                                         *)
(* Original identifiers are strings; "" is what record.get(field, "")      *)
(* yields for an absent field.  A source file is a sequence of lines; a    *)
(* line either fails json.loads (ok = FALSE) or is a record.  A loop that  *)
(* streams a file is modelled one line per step.  An output row keeps the  *)
(* fields the scripts rewrite (the identifiers), the record they were      *)
(* built from (rec, standing for the fields copied through) and the        *)
(* position of that record in its source (src).                            *)
(***************************************************************************)
EXTENDS Integers, Sequences, FiniteSets, TLC

\* ------------------------------------------------------------- bounds
MaxReviews == 3       \* lines of the reviews source, process_reviews alone
MaxMainReviews == 2   \* lines of the reviews source, whole run of main
MaxFairReviews == 1   \* lines of the reviews source, runs checked to end
MaxDepLines == 2      \* lines of the books and genres sources together

MaxInteractions == 5  \* rows of goodreads_interactions.csv
MaxBudget == 3        \* largest interaction budget tried
MaxShortInteractions == 3  \* rows of a short goodreads_interactions.csv

MaxSampleRows == 3    \* rows of the input files of sample.py together

MaxAuthorLines == 3   \* lines of the authors source
\* the caps on the rows written (200000 authors, 400000 books, 2000000
\* reviews, 4000000 interactions in the script), scaled to the sources of
\* the model
MAX_AUTHORS == 2
MAX_BOOKS == 2
MAX_REVIEWS == 2
MAX_INTERACTIONS == 2
MaxCapLines == 3      \* lines and rows a capped function reads in all
MaxCapFiles == 2      \* input files of one kind

MaxTextLen == 4       \* characters of a text given to safe_truncate
MaxTruncate == 3      \* largest max_length given to safe_truncate

UserIds == {"u1", "u2"}
BookIds == {"b1", "b2"}
\* SAMPLE_USER_PERCENT in hundredths: 5 is the configured 0.05; 50 and 100
\* are the settings under which a source of MaxReviews lines selects anyone.
\* For these values and the list lengths of the model the float product
\* len * p is exact or rounds to the same integer part.
Percents == {5, 50, 100}

\* ------------------------------------------------------------- helpers
EmptyMap == [x \in {} |-> 0]

Min(a, b) == IF a < b THEN a ELSE b

Range(s) == {s[i] : i \in DOMAIN s}

SeqsUpTo(S, n) == UNION {[1..k -> S] : k \in 0..n}

\* ------------------------------------------------------------- inputs
BadLine == [ok |-> FALSE, user_id |-> "", book_id |-> ""]

\* a line that does not parse, a record without user_id, and the records of
\* each user about each book or about no book
ReviewLines ==
  {BadLine, [ok |-> TRUE, user_id |-> "", book_id |-> "b1"]} \cup
  {[ok |-> TRUE, user_id |-> u, book_id |-> b] :
      u \in UserIds, b \in BookIds \cup {""}}

BadBookLine == [ok |-> FALSE, book_id |-> ""]

BookLines ==
  {BadBookLine} \cup {[ok |-> TRUE, book_id |-> b] : b \in BookIds \cup {""}}

BadGenreLine == [ok |-> FALSE, book_id |-> "", genre |-> ""]

GenreLines ==
  {BadGenreLine} \cup
  {[ok |-> TRUE, book_id |-> b, genre |-> "g1"] : b \in BookIds \cup {""}}

\* rows of goodreads_interactions.csv: one that passes the filter for each
\* of three users, and one that fails each clause of the filter
InteractionRows ==
  {[user_id |-> u, book_id |-> 1, rating |-> 5, is_reviewed |-> 0] :
      u \in 1..3} \cup
  {[user_id |-> 2, book_id |-> 2, rating |-> 5, is_reviewed |-> 0],
   [user_id |-> 3, book_id |-> 1, rating |-> 0, is_reviewed |-> 0],
   [user_id |-> 1, book_id |-> 1, rating |-> 5, is_reviewed |-> 1]}

\* ------------------------------------------------------------- state
VARIABLES
  pc,               \* position of the running script
  pct,              \* SAMPLE_USER_PERCENT, in hundredths
  reviews_exists,   \* os.path.exists(reviews_file)
  books_exists,     \* os.path.exists(books_file)
  genres_exists,    \* os.path.exists(genres_file)
  reviews_file,     \* lines of goodreads_reviews_dedup.json.gz
  pos,              \* 1-based index of the next line of the running loop
  user_counts,      \* dict user_id -> count, as its items in insertion order
  all_users_sorted, \* sorted(user_counts.items(), key=count, reverse=True)
  top_users_old,    \* selected users
  user_id_map,
  book_id_map,
  next_user_id,
  next_book_id,
  kept_users_old,
  kept_books_old,
  reviews_out,      \* data rows of reviews.csv
  genres_src,       \* lines of goodreads_book_genres_initial.json.gz
  genres_dict,
  books_read,       \* number of lines of goodreads_books.json.gz read so far
  books_out,        \* data rows of books.csv
  genres_out,       \* data rows of genres.csv
  files,            \* output files created so far (header written)
  \* Extra_formattingcode.py
  budget,           \* the interaction budget (3_000_000 in the script)
  interactions_df,
  books_df,         \* the book_id column of books.csv
  filtered_df,
  value_counts,     \* user_counts: rows [user, count], as value_counts() orders them
  cumulative_sum,
  top_user_ids,
  sampled_interactions_df,
  sampled_csv,      \* data rows of sampled_interactions_df.csv
  \* sample.py
  s_reviews,        \* data rows of Filtered_Dataset/reviews.csv
  s_pos,            \* 1-based index of the next row of s_reviews
  kept_users,
  kept_books,
  s_read,           \* rows read so far from the other input files
  interactions_in,  \* rows of Filtered_Dataset/interactions.csv read so far
  authors_read,     \* rows of Filtered_Dataset/authors.csv read so far
  out_dir,          \* OUTPUT_DIR: file name -> data rows, for the files created
  \* process_authors
  authors_in,       \* lines of the authors source read so far
  seen_authors,     \* dict author_id -> row, as its values in insertion order
  count,
  authors_csv,      \* data rows of authors.csv
  \* safe_truncate
  text,
  max_length,
  result,           \* the value a call of safe_truncate returned
  \* process_books and process_genres on separate workers
  books_file,       \* lines of goodreads_books.json.gz read so far
  books_pc,         \* position of the worker that runs process_books
  genres_pc,        \* position of the worker that runs process_genres
  \* the capped extractor: process_books, process_reviews,
  \* process_interactions
  total_count,      \* total_count of process_reviews and process_interactions
  rows_written,     \* writer.writerow calls of the running function
  lines_read,       \* lines and rows the running function has read
  files_left,       \* input files of the kind being read not yet opened
  json_files        \* interaction files that end in .json.gz

cascadeVars ==
  <<pct, reviews_exists, books_exists, genres_exists, reviews_file, pos,
    user_counts, all_users_sorted, top_users_old, user_id_map, book_id_map,
    next_user_id, next_book_id, kept_users_old, kept_books_old, reviews_out,
    genres_src, genres_dict, books_read, books_out, genres_out, files>>

budgetVars ==
  <<budget, interactions_df, books_df, filtered_df, value_counts,
    cumulative_sum, top_user_ids, sampled_interactions_df, sampled_csv>>

sampleVars ==
  <<s_reviews, s_pos, kept_users, kept_books, s_read, interactions_in,
    authors_read, out_dir>>

authorVars == <<authors_in, seen_authors, count, authors_csv>>

truncVars == <<text, max_length, result>>

workerVars == <<books_file, books_pc, genres_pc>>

cappedVars ==
  <<total_count, rows_written, lines_read, files_left, json_files>>

vars ==
  <<pc, cascadeVars, budgetVars, sampleVars, authorVars, truncVars,
    workerVars, cappedVars>>

\* the variables of the scripts other than the sampling extractor
nonCascadeVars ==
  <<budgetVars, sampleVars, authorVars, truncVars, workerVars, cappedVars>>

\* the variables of the scripts other than the interaction sampler
nonBudgetVars ==
  <<sampleVars, authorVars, truncVars, workerVars, cappedVars>>

\* the variables of the scripts other than sample.py
nonSampleVars ==
  <<cascadeVars, budgetVars, authorVars, truncVars, workerVars, cappedVars>>

\* the variables of the scripts other than process_authors, authors.csv
\* being one of the output files
nonFilesVars ==
  <<pct, reviews_exists, books_exists, genres_exists, reviews_file, pos,
    user_counts, all_users_sorted, top_users_old, user_id_map, book_id_map,
    next_user_id, next_book_id, kept_users_old, kept_books_old, reviews_out,
    genres_src, genres_dict, books_read, books_out, genres_out>>

nonAuthorVars ==
  <<nonFilesVars, budgetVars, sampleVars, truncVars, workerVars,
    cappedVars>>

\* the values the variables of a script hold while another script runs
IdleCascade ==
  /\ pct = 5
  /\ reviews_exists = FALSE
  /\ books_exists = FALSE
  /\ genres_exists = FALSE
  /\ reviews_file = <<>>
  /\ pos = 1
  /\ user_counts = <<>>
  /\ all_users_sorted = <<>>
  /\ top_users_old = {}
  /\ user_id_map = EmptyMap
  /\ book_id_map = EmptyMap
  /\ next_user_id = 1
  /\ next_book_id = 1
  /\ kept_users_old = {}
  /\ kept_books_old = {}
  /\ reviews_out = <<>>
  /\ genres_src = <<>>
  /\ genres_dict = EmptyMap
  /\ books_read = 0
  /\ books_out = <<>>
  /\ genres_out = <<>>
  /\ files = {}

IdleBudget ==
  /\ budget = 0
  /\ interactions_df = <<>>
  /\ books_df = <<>>
  /\ filtered_df = <<>>
  /\ value_counts = <<>>
  /\ cumulative_sum = <<>>
  /\ top_user_ids = {}
  /\ sampled_interactions_df = <<>>
  /\ sampled_csv = <<>>

IdleSample ==
  /\ s_reviews = <<>>
  /\ s_pos = 1
  /\ kept_users = {}
  /\ kept_books = {}
  /\ s_read = 0
  /\ interactions_in = <<>>
  /\ authors_read = <<>>
  /\ out_dir = EmptyMap

IdleAuthors ==
  /\ authors_in = <<>>
  /\ seen_authors = <<>>
  /\ count = 0
  /\ authors_csv = <<>>

IdleTruncate ==
  /\ text = <<>>
  /\ max_length = 0
  /\ result = <<>>

IdleWorkers ==
  /\ books_file = <<>>
  /\ books_pc = "idle"
  /\ genres_pc = "idle"

IdleCapped ==
  /\ total_count = 0
  /\ rows_written = 0
  /\ lines_read = 0
  /\ files_left = 0
  /\ json_files = 0

\* ------------------------------------------------------------- pass 1
\* user_counts[user_id] = user_counts.get(user_id, 0) + 1
\* CountsIncr that counts a user once however often it occurs
CountsIncr_once(uc, u) ==
  IF \E i \in DOMAIN uc : uc[i].user = u
  THEN uc
  ELSE Append(uc, [user |-> u, count |-> 1])

CountsIncr(uc, u) ==
  IF \E i \in DOMAIN uc : uc[i].user = u
  THEN [i \in DOMAIN uc |->
          IF uc[i].user = u
          THEN [user |-> u, count |-> uc[i].count + 1]
          ELSE uc[i]]
  ELSE Append(uc, [user |-> u, count |-> 1])

CountOf(uc, u) ==
  IF \E i \in DOMAIN uc : uc[i].user = u
  THEN (uc[CHOOSE i \in DOMAIN uc : uc[i].user = u]).count
  ELSE 0

CountedUsers(uc) == {uc[i].user : i \in DOMAIN uc}

\* InsertDesc with ties reversed: x goes before the elements of equal count
InsertDesc_unstable(t, x) ==
  LET k == Cardinality({i \in DOMAIN t : t[i].count > x.count})
  IN SubSeq(t, 1, k) \o <<x>> \o SubSeq(t, k + 1, Len(t))

\* InsertDesc without reverse=True: ascending counts
InsertDesc_ascending(t, x) ==
  LET k == Cardinality({i \in DOMAIN t : t[i].count <= x.count})
  IN SubSeq(t, 1, k) \o <<x>> \o SubSeq(t, k + 1, Len(t))

\* One step of a stable sort by descending count: x goes after every element
\* whose count is at least its own.
InsertDesc(t, x) ==
  LET k == Cardinality({i \in DOMAIN t : t[i].count >= x.count})
  IN SubSeq(t, 1, k) \o <<x>> \o SubSeq(t, k + 1, Len(t))

RECURSIVE SortedDesc(_)
SortedDesc(s) ==
  IF s = <<>> THEN <<>>
  ELSE InsertDesc(SortedDesc(SubSeq(s, 1, Len(s) - 1)), s[Len(s)])

\* int(len(all_users_sorted) * SAMPLE_USER_PERCENT)
NumUsersToKeep(n, p) == (n * p) \div 100

\* TopUsers taking the end of the list instead of its head
TopUsers_last(sorted, n) ==
  {sorted[i].user : i \in (Len(sorted) - Min(n, Len(sorted)) + 1)..Len(sorted)}

\* set(user for (user, count) in all_users_sorted[:num_users_to_keep])
TopUsers(sorted, n) == {sorted[i].user : i \in 1..Min(n, Len(sorted))}

\* ------------------------------------------------------------- remapper
\* get_mapped_user_id without the "not in" test: every call allocates
get_mapped_user_id_realloc(old_id) ==
  [map |-> [k \in DOMAIN user_id_map \cup {old_id} |->
              IF k = old_id THEN next_user_id ELSE user_id_map[k]],
   next |-> next_user_id + 1]

get_mapped_user_id(old_id) ==
  IF old_id \notin DOMAIN user_id_map
  THEN [map |-> (old_id :> next_user_id) @@ user_id_map,
        next |-> next_user_id + 1]
  ELSE [map |-> user_id_map, next |-> next_user_id]

\* get_mapped_book_id drawing from the user counter
get_mapped_book_id_shared(old_id) ==
  IF old_id \notin DOMAIN book_id_map
  THEN [map |-> (old_id :> next_user_id) @@ book_id_map,
        next |-> next_book_id + 1]
  ELSE [map |-> book_id_map, next |-> next_book_id]

get_mapped_book_id(old_id) ==
  IF old_id \notin DOMAIN book_id_map
  THEN [map |-> (old_id :> next_book_id) @@ book_id_map,
        next |-> next_book_id + 1]
  ELSE [map |-> book_id_map, next |-> next_book_id]

\* ------------------------------------------------------------- cascade
\* the state before process_reviews runs, whatever the reviews source holds
InitState(maxLines) ==
  /\ pc = "start"
  /\ pct \in Percents
  /\ reviews_exists \in BOOLEAN
  /\ reviews_file \in (IF reviews_exists
                        THEN SeqsUpTo(ReviewLines, maxLines)
                        ELSE {<<>>})
  /\ pos = 1
  /\ user_counts = <<>>
  /\ all_users_sorted = <<>>
  /\ top_users_old = {}
  /\ user_id_map = EmptyMap
  /\ book_id_map = EmptyMap
  /\ next_user_id = 1
  /\ next_book_id = 1
  /\ kept_users_old = {}
  /\ kept_books_old = {}
  /\ reviews_out = <<>>
  /\ genres_src = <<>>
  /\ genres_dict = EmptyMap
  /\ books_read = 0
  /\ books_out = <<>>
  /\ genres_out = <<>>
  /\ files = {}

InitRoot ==
  /\ InitState(MaxReviews)
  /\ books_exists = TRUE
  /\ genres_exists = TRUE
  /\ IdleBudget
  /\ IdleSample
  /\ IdleAuthors
  /\ IdleTruncate
  /\ IdleWorkers
  /\ IdleCapped

InitCascade ==
  /\ InitState(MaxMainReviews)
  /\ books_exists \in BOOLEAN
  /\ genres_exists \in BOOLEAN
  /\ IdleBudget
  /\ IdleSample
  /\ IdleAuthors
  /\ IdleTruncate
  /\ IdleWorkers
  /\ IdleCapped

\* process_reviews: the reviews file does not exist
ReviewsMissing ==
  /\ pc = "start"
  /\ ~reviews_exists
  /\ pc' = "main_318"
  /\ UNCHANGED cascadeVars
  /\ UNCHANGED nonCascadeVars

ReviewsOpen ==
  /\ pc = "start"
  /\ reviews_exists
  /\ pc' = "pass1"
  /\ UNCHANGED cascadeVars
  /\ UNCHANGED nonCascadeVars

\* pass 1, one line of the source
Pass1Step ==
  /\ pc = "pass1"
  /\ pos <= Len(reviews_file)
  /\ LET line == reviews_file[pos]
     IN user_counts' =
          IF line.ok /\ line.user_id # ""
          THEN CountsIncr(user_counts, line.user_id)
          ELSE user_counts
  /\ pos' = pos + 1
  /\ UNCHANGED <<pc, pct, reviews_exists, books_exists, genres_exists,
                 reviews_file, all_users_sorted, top_users_old, user_id_map, book_id_map,
                 next_user_id, next_book_id, kept_users_old, kept_books_old,
                 reviews_out, genres_src, genres_dict, books_read, books_out,
                 genres_out, files>>
  /\ UNCHANGED nonCascadeVars

\* end of the source in pass 1
Pass1End ==
  /\ pc = "pass1"
  /\ pos > Len(reviews_file)
  /\ pc' = "select"
  /\ UNCHANGED cascadeVars
  /\ UNCHANGED nonCascadeVars

\* sort, cut, and open reviews.csv for pass 2
Select ==
  /\ pc = "select"
  /\ all_users_sorted' = SortedDesc(user_counts)
  /\ top_users_old' =
       TopUsers(all_users_sorted',
                NumUsersToKeep(Len(all_users_sorted'), pct))
  /\ files' = files \cup {"reviews.csv"}
  /\ pos' = 1
  /\ pc' = "pass2"
  /\ UNCHANGED <<pct, reviews_exists, books_exists, genres_exists,
                 reviews_file, user_counts, user_id_map, book_id_map,
                 next_user_id, next_book_id, kept_users_old, kept_books_old,
                 reviews_out, genres_src, genres_dict, books_read, books_out,
                 genres_out>>
  /\ UNCHANGED nonCascadeVars

\* ReviewAccepted without the top-user test
ReviewAccepted_any(line) == line.ok

\* ReviewAccepted letting through one review of each selected user
ReviewAccepted_once(line) ==
  /\ line.ok
  /\ line.user_id \in top_users_old
  /\ line.user_id \notin kept_users_old

\* the test of pass 2 that lets a line through to the writer
ReviewAccepted(line) == line.ok /\ line.user_id \in top_users_old

\* pass 2, one line of the source
Pass2Step ==
  /\ pc = "pass2"
  /\ pos <= Len(reviews_file)
  /\ LET line == reviews_file[pos]
         um == get_mapped_user_id(line.user_id)
         bm == get_mapped_book_id(line.book_id)
     IN IF ReviewAccepted(line)
        THEN /\ user_id_map' = um.map
             /\ next_user_id' = um.next
             /\ book_id_map' = bm.map
             /\ next_book_id' = bm.next
             /\ kept_users_old' = kept_users_old \cup {line.user_id}
             /\ kept_books_old' = kept_books_old \cup {line.book_id}
             /\ reviews_out' =
                  Append(reviews_out,
                         [src |-> pos,
                          rec |-> line,
                          user_id |-> um.map[line.user_id],
                          book_id |-> bm.map[line.book_id]])
        ELSE UNCHANGED <<user_id_map, next_user_id, book_id_map,
                         next_book_id, kept_users_old, kept_books_old,
                         reviews_out>>
  /\ pos' = pos + 1
  /\ UNCHANGED <<pc, pct, reviews_exists, books_exists, genres_exists,
                 reviews_file, user_counts, all_users_sorted, top_users_old,
                 genres_src, genres_dict, books_read, books_out, genres_out,
                 files>>
  /\ UNCHANGED nonCascadeVars

\* Pass2End leaving the loop before the source is exhausted
Pass2End_early ==
  /\ pc = "pass2"
  /\ pc' = "main_318"
  /\ UNCHANGED cascadeVars
  /\ UNCHANGED nonCascadeVars

Pass2End ==
  /\ pc = "pass2"
  /\ pos > Len(reviews_file)
  /\ pc' = "main_318"
  /\ UNCHANGED cascadeVars
  /\ UNCHANGED nonCascadeVars

\* MainIntersect taking the keys of the user map
MainIntersect_users ==
  /\ pc = "main_318"
  /\ kept_books_old' = kept_books_old \cap DOMAIN user_id_map
  /\ pc' = "load_genres"
  /\ UNCHANGED <<pct, reviews_exists, books_exists, genres_exists,
                 reviews_file, pos, user_counts, all_users_sorted,
                 top_users_old, user_id_map, book_id_map, next_user_id,
                 next_book_id, kept_users_old, reviews_out, genres_src,
                 genres_dict, books_read, books_out, genres_out, files>>
  /\ UNCHANGED nonCascadeVars

\* main: kept_books_old = kept_books_old & set(book_id_map.keys())
MainIntersect ==
  /\ pc = "main_318"
  /\ kept_books_old' = kept_books_old \cap DOMAIN book_id_map
  /\ pc' = "load_genres"
  /\ UNCHANGED <<pct, reviews_exists, books_exists, genres_exists,
                 reviews_file, pos, user_counts, all_users_sorted,
                 top_users_old, user_id_map, book_id_map, next_user_id,
                 next_book_id, kept_users_old, reviews_out, genres_src,
                 genres_dict, books_read, books_out, genres_out, files>>
  /\ UNCHANGED nonCascadeVars

\* LoadGenresMissing ending the run instead of returning to main
LoadGenresMissing_abort ==
  /\ pc = "load_genres"
  /\ ~genres_exists
  /\ pc' = "done"
  /\ UNCHANGED cascadeVars
  /\ UNCHANGED nonCascadeVars

\* load_genres: the genres file does not exist
LoadGenresMissing ==
  /\ pc = "load_genres"
  /\ ~genres_exists
  /\ pc' = "books"
  /\ UNCHANGED cascadeVars
  /\ UNCHANGED nonCascadeVars

LoadGenresOpen ==
  /\ pc = "load_genres"
  /\ genres_exists
  /\ pc' = "lg_loop"
  /\ UNCHANGED cascadeVars
  /\ UNCHANGED nonCascadeVars

\* load_genres, one line
LoadGenresRead ==
  /\ pc = "lg_loop"
  /\ Len(genres_src) + books_read < MaxDepLines
  /\ \E line \in GenreLines :
       /\ genres_src' = Append(genres_src, line)
       /\ genres_dict' =
            IF line.ok /\ line.book_id # ""
            THEN (line.book_id :> line.genre) @@ genres_dict
            ELSE genres_dict
  /\ UNCHANGED <<pc, pct, reviews_exists, books_exists, genres_exists,
                 reviews_file, pos, user_counts, all_users_sorted,
                 top_users_old, user_id_map, book_id_map, next_user_id,
                 next_book_id, kept_users_old, kept_books_old, reviews_out,
                 books_read, books_out, genres_out, files>>
  /\ UNCHANGED nonCascadeVars

LoadGenresEnd ==
  /\ pc = "lg_loop"
  /\ pc' = "books"
  /\ UNCHANGED cascadeVars
  /\ UNCHANGED nonCascadeVars

\* process_books: the books file does not exist
BooksMissing ==
  /\ pc = "books"
  /\ ~books_exists
  /\ pc' = "genres"
  /\ UNCHANGED cascadeVars
  /\ UNCHANGED nonCascadeVars

BooksOpen ==
  /\ pc = "books"
  /\ books_exists
  /\ files' = files \cup {"books.csv"}
  /\ pc' = "books_loop"
  /\ UNCHANGED <<pct, reviews_exists, books_exists, genres_exists,
                 reviews_file, pos, user_counts, all_users_sorted,
                 top_users_old, user_id_map, book_id_map, next_user_id,
                 next_book_id, kept_users_old, kept_books_old, reviews_out,
                 genres_src, genres_dict, books_read, books_out, genres_out>>
  /\ UNCHANGED nonCascadeVars

\* the two membership tests of process_books and process_genres
BookKept(old_book_id) ==
  old_book_id \in kept_books_old /\ old_book_id \in DOMAIN book_id_map

\* GenreOf looking the genre up in the rows process_genres has written
GenreOf_from_output(old_book_id) ==
  IF \E i \in DOMAIN genres_out : genres_out[i].rec.book_id = old_book_id
  THEN "g1"
  ELSE ""

\* genres_dict.get(old_book_id, "")
GenreOf(old_book_id) ==
  IF old_book_id \in DOMAIN genres_dict THEN genres_dict[old_book_id] ELSE ""

\* the row of process_books numbered by its place in books.csv
BookRow_renumbered(line, n) ==
  [src |-> n,
   rec |-> line,
   book_id |-> Len(books_out) + 1,
   genre |-> GenreOf(line.book_id)]

\* the row process_books writes for the n-th line of the books source
BookRow(line, n) ==
  [src |-> n,
   rec |-> line,
   book_id |-> book_id_map[line.book_id],
   genre |-> GenreOf(line.book_id)]

\* BooksRead giving every parseable book it meets a remapped identifier
BooksRead_mapping ==
  /\ pc = "books_loop"
  /\ Len(genres_src) + books_read < MaxDepLines
  /\ \E line \in BookLines :
       LET bm == IF line.ok THEN get_mapped_book_id(line.book_id)
                 ELSE [map |-> book_id_map, next |-> next_book_id]
       IN /\ books_read' = books_read + 1
          /\ book_id_map' = bm.map
          /\ next_book_id' = bm.next
          /\ kept_books_old' =
               IF line.ok THEN kept_books_old \cup {line.book_id}
               ELSE kept_books_old
          /\ books_out' =
               IF line.ok
               THEN Append(books_out,
                           [src |-> books_read + 1,
                            rec |-> line,
                            book_id |-> bm.map[line.book_id],
                            genre |-> GenreOf(line.book_id)])
               ELSE books_out
  /\ UNCHANGED <<pc, pct, reviews_exists, books_exists, genres_exists,
                 reviews_file, pos, user_counts, all_users_sorted,
                 top_users_old, user_id_map, next_user_id, kept_users_old,
                 reviews_out, genres_src, genres_dict, genres_out, files>>
  /\ UNCHANGED nonCascadeVars

\* process_books, one line
BooksRead ==
  /\ pc = "books_loop"
  /\ Len(genres_src) + books_read < MaxDepLines
  /\ \E line \in BookLines :
       /\ books_read' = books_read + 1
       /\ books_out' =
            IF line.ok /\ BookKept(line.book_id)
            THEN Append(books_out, BookRow(line, books_read + 1))
            ELSE books_out
  /\ UNCHANGED <<pc, pct, reviews_exists, books_exists, genres_exists,
                 reviews_file, pos, user_counts, all_users_sorted,
                 top_users_old, user_id_map, book_id_map, next_user_id,
                 next_book_id, kept_users_old, kept_books_old, reviews_out,
                 genres_src, genres_dict, genres_out, files>>
  /\ UNCHANGED nonCascadeVars

BooksEnd ==
  /\ pc = "books_loop"
  /\ pc' = "genres"
  /\ UNCHANGED cascadeVars
  /\ UNCHANGED nonCascadeVars

\* process_genres: the genres file does not exist
GenresMissing ==
  /\ pc = "genres"
  /\ ~genres_exists
  /\ pc' = "done"
  /\ UNCHANGED cascadeVars
  /\ UNCHANGED nonCascadeVars

GenresOpen ==
  /\ pc = "genres"
  /\ genres_exists
  /\ files' = files \cup {"genres.csv"}
  /\ pos' = 1
  /\ pc' = "genres_loop"
  /\ UNCHANGED <<pct, reviews_exists, books_exists, genres_exists,
                 reviews_file, user_counts, all_users_sorted, top_users_old,
                 user_id_map, book_id_map, next_user_id, next_book_id,
                 kept_users_old, kept_books_old, reviews_out, genres_src,
                 genres_dict, books_read, books_out, genres_out>>
  /\ UNCHANGED nonCascadeVars

\* process_genres, one line
GenresStep ==
  /\ pc = "genres_loop"
  /\ pos <= Len(genres_src)
  /\ LET line == genres_src[pos]
     IN genres_out' =
          IF line.ok /\ BookKept(line.book_id)
          THEN Append(genres_out,
                      [src |-> pos,
                       rec |-> line,
                       book_id |-> book_id_map[line.book_id],
                       genre |-> line.genre])
          ELSE genres_out
  /\ pos' = pos + 1
  /\ UNCHANGED <<pc, pct, reviews_exists, books_exists, genres_exists,
                 reviews_file, user_counts, all_users_sorted, top_users_old,
                 user_id_map, book_id_map, next_user_id, next_book_id,
                 kept_users_old, kept_books_old, reviews_out, genres_src,
                 genres_dict, books_read, books_out, files>>
  /\ UNCHANGED nonCascadeVars

GenresEnd ==
  /\ pc = "genres_loop"
  /\ pos > Len(genres_src)
  /\ pc' = "done"
  /\ UNCHANGED cascadeVars
  /\ UNCHANGED nonCascadeVars

\* process_reviews
NextRoot ==
  \/ ReviewsMissing \/ ReviewsOpen \/ Pass1Step \/ Pass1End \/ Select
  \/ Pass2Step \/ Pass2End

\* main
NextCascade ==
  \/ NextRoot
  \/ MainIntersect
  \/ LoadGenresMissing \/ LoadGenresOpen \/ LoadGenresRead \/ LoadGenresEnd
  \/ BooksMissing \/ BooksOpen \/ BooksRead \/ BooksEnd
  \/ GenresMissing \/ GenresOpen \/ GenresStep \/ GenresEnd

Init == InitCascade

Next == NextCascade

\* a whole run of main
Spec == Init /\ [][Next]_vars

\* a whole run of main in which the interpreter, while the script has a
\* step to take, takes it
InitFair ==
  /\ InitState(MaxFairReviews)
  /\ books_exists \in BOOLEAN
  /\ genres_exists \in BOOLEAN
  /\ IdleBudget
  /\ IdleSample
  /\ IdleAuthors
  /\ IdleTruncate
  /\ IdleWorkers
  /\ IdleCapped

SpecFair == InitFair /\ [][Next]_vars /\ WF_vars(Next)

\* a call of process_reviews
SpecRoot == InitRoot /\ [][NextRoot]_vars

\* main over a reviews source of three records, two of user u1 and one of
\* user u2 in any order and about any books, with SAMPLE_USER_PERCENT = 0.5
InitScenario ==
  /\ InitState(MaxReviews)
  /\ books_exists \in BOOLEAN
  /\ genres_exists \in BOOLEAN
  /\ IdleBudget
  /\ IdleSample
  /\ IdleAuthors
  /\ IdleTruncate
  /\ IdleWorkers
  /\ IdleCapped
  /\ pct = 50
  /\ reviews_exists
  /\ Len(reviews_file) = 3
  /\ \A i \in DOMAIN reviews_file : reviews_file[i].ok
  /\ Cardinality({i \in DOMAIN reviews_file :
                    reviews_file[i].user_id = "u1"}) = 2
  /\ Cardinality({i \in DOMAIN reviews_file :
                    reviews_file[i].user_id = "u2"}) = 1

\* main when the reviews source exists
NextScenario ==
  \/ ReviewsOpen \/ Pass1Step \/ Pass1End \/ Select \/ Pass2Step \/ Pass2End
  \/ MainIntersect
  \/ LoadGenresMissing \/ LoadGenresOpen \/ LoadGenresRead \/ LoadGenresEnd
  \/ BooksMissing \/ BooksOpen \/ BooksRead \/ BooksEnd
  \/ GenresMissing \/ GenresOpen \/ GenresStep \/ GenresEnd

SpecScenario == InitScenario /\ [][NextScenario]_vars

\* ------------------------------------------------------------- workers
\* main with process_books and process_genres handed to two workers after
\* load_genres has returned: each worker runs the loop of its function, one
\* line a step, and the steps of the two interleave in any order

\* the variables of the other scripts
nonWorkerVars ==
  <<budgetVars, sampleVars, authorVars, truncVars, cappedVars>>

\* what process_reviews, main and load_genres have left behind
rootResult ==
  <<pct, reviews_exists, books_exists, genres_exists, reviews_file,
    user_counts, all_users_sorted, top_users_old, user_id_map, book_id_map,
    next_user_id, next_book_id, kept_users_old, kept_books_old, reviews_out,
    genres_src, genres_dict>>

\* main: both calls are started
Fork ==
  /\ pc = "books"
  /\ pc' = "workers"
  /\ books_pc' = "books"
  /\ genres_pc' = "genres"
  /\ UNCHANGED <<cascadeVars, books_file, nonWorkerVars>>

\* process_books: the books file does not exist
WorkerBooksMissing ==
  /\ pc = "workers"
  /\ books_pc = "books"
  /\ ~books_exists
  /\ books_pc' = "done"
  /\ UNCHANGED <<pc, cascadeVars, books_file, genres_pc, nonWorkerVars>>

WorkerBooksOpen ==
  /\ pc = "workers"
  /\ books_pc = "books"
  /\ books_exists
  /\ files' = files \cup {"books.csv"}
  /\ books_pc' = "books_loop"
  /\ UNCHANGED <<pc, rootResult, pos, books_read, books_out, genres_out,
                 books_file, genres_pc, nonWorkerVars>>

\* process_books, one line
WorkerBooksRead ==
  /\ pc = "workers"
  /\ books_pc = "books_loop"
  /\ Len(genres_src) + books_read < MaxDepLines
  /\ \E line \in BookLines :
       /\ books_file' = Append(books_file, line)
       /\ books_read' = books_read + 1
       /\ books_out' =
            IF line.ok /\ BookKept(line.book_id)
            THEN Append(books_out, BookRow(line, books_read + 1))
            ELSE books_out
  /\ UNCHANGED <<pc, rootResult, pos, genres_out, files, books_pc,
                 genres_pc, nonWorkerVars>>

WorkerBooksEnd ==
  /\ pc = "workers"
  /\ books_pc = "books_loop"
  /\ books_pc' = "done"
  /\ UNCHANGED <<pc, cascadeVars, books_file, genres_pc, nonWorkerVars>>

\* process_genres: the genres file does not exist
WorkerGenresMissing ==
  /\ pc = "workers"
  /\ genres_pc = "genres"
  /\ ~genres_exists
  /\ genres_pc' = "done"
  /\ UNCHANGED <<pc, cascadeVars, books_file, books_pc, nonWorkerVars>>

WorkerGenresOpen ==
  /\ pc = "workers"
  /\ genres_pc = "genres"
  /\ genres_exists
  /\ files' = files \cup {"genres.csv"}
  /\ pos' = 1
  /\ genres_pc' = "genres_loop"
  /\ UNCHANGED <<pc, rootResult, books_read, books_out, genres_out,
                 books_file, books_pc, nonWorkerVars>>

\* process_genres, one line
WorkerGenresStep ==
  /\ pc = "workers"
  /\ genres_pc = "genres_loop"
  /\ pos <= Len(genres_src)
  /\ LET line == genres_src[pos]
     IN genres_out' =
          IF line.ok /\ BookKept(line.book_id)
          THEN Append(genres_out,
                      [src |-> pos,
                       rec |-> line,
                       book_id |-> book_id_map[line.book_id],
                       genre |-> line.genre])
          ELSE genres_out
  /\ pos' = pos + 1
  /\ UNCHANGED <<pc, rootResult, books_read, books_out, files, books_file,
                 books_pc, genres_pc, nonWorkerVars>>

WorkerGenresEnd ==
  /\ pc = "workers"
  /\ genres_pc = "genres_loop"
  /\ pos > Len(genres_src)
  /\ genres_pc' = "done"
  /\ UNCHANGED <<pc, cascadeVars, books_file, books_pc, nonWorkerVars>>

\* main: both calls have returned
Join ==
  /\ pc = "workers"
  /\ books_pc = "done"
  /\ genres_pc = "done"
  /\ pc' = "done"
  /\ UNCHANGED <<cascadeVars, workerVars, nonWorkerVars>>

NextWorkers ==
  \/ NextRoot
  \/ MainIntersect
  \/ LoadGenresMissing \/ LoadGenresOpen \/ LoadGenresRead \/ LoadGenresEnd
  \/ Fork
  \/ WorkerBooksMissing \/ WorkerBooksOpen \/ WorkerBooksRead
  \/ WorkerBooksEnd
  \/ WorkerGenresMissing \/ WorkerGenresOpen \/ WorkerGenresStep
  \/ WorkerGenresEnd
  \/ Join

\* a run of main with SAMPLE_USER_PERCENT at 1.0, under which every user of
\* the reviews file is selected and both dependents have kept books to look up
InitWorkers ==
  /\ InitCascade
  /\ pct = 100

SpecWorkers == InitWorkers /\ [][NextWorkers]_vars


\* ------------------------------------------------------------- budget
\* Extra_formattingcode.py

\* set(books_df['book_id'].unique())
valid_books == Range(books_df)

\* is_reviewed == 0, rating != 0, book_id in valid_books
RowValid(row) ==
  /\ row.is_reviewed = 0
  /\ row.rating # 0
  /\ row.book_id \in valid_books

\* df[df['user_id'].isin(ids)]
RowsOfUsers(df, ids) == SelectSeq(df, LAMBDA row : row.user_id \in ids)

RowCount(df, u) == Cardinality({i \in DOMAIN df : df[i].user_id = u})

\* The orders value_counts() may return: every user of the frame once, counts
\* descending.  The order among users of equal count is the library's.
ValueCountOrders(df) ==
  LET users == {df[i].user_id : i \in DOMAIN df}
      n == Cardinality(users)
  IN {[i \in 1..n |-> [user |-> s[i], count |-> RowCount(df, s[i])]] :
        s \in {t \in [1..n -> users] :
                 /\ Range(t) = users
                 /\ \A i \in 1..n : \A j \in i..n :
                      RowCount(df, t[i]) >= RowCount(df, t[j])}}

RECURSIVE SumCounts(_, _)
SumCounts(vc, i) == IF i = 0 THEN 0 ELSE SumCounts(vc, i - 1) + vc[i].count

\* user_counts.cumsum()
CumSum(vc) == [i \in DOMAIN vc |-> SumCounts(vc, i)]

\* CumSumKeep testing the user's own count instead of the running total
CumSumKeep_own(vc, cs, b) == {vc[i].user : i \in {j \in DOMAIN cs : vc[j].count <= b}}

\* cumulative_sum[cumulative_sum <= B].index
CumSumKeep(vc, cs, b) == {vc[i].user : i \in {j \in DOMAIN cs : cs[j] <= b}}

\* the rows of df at the positions in idx, in frame order
RECURSIVE RowsAt(_, _, _)
RowsAt(df, idx, n) ==
  IF n = 0 THEN <<>>
  ELSE IF n \in idx THEN Append(RowsAt(df, idx, n - 1), df[n])
       ELSE RowsAt(df, idx, n - 1)

\* the script has loaded its data: at most maxRows interactions
InitBudgetOf(maxRows) ==
  /\ pc = "x_step1"
  /\ budget \in 0..MaxBudget
  /\ interactions_df \in SeqsUpTo(InteractionRows, maxRows)
  /\ books_df = <<1>>
  /\ filtered_df = <<>>
  /\ value_counts = <<>>
  /\ cumulative_sum = <<>>
  /\ top_user_ids = {}
  /\ sampled_interactions_df = <<>>
  /\ sampled_csv = <<>>
  /\ IdleCascade
  /\ IdleSample
  /\ IdleAuthors
  /\ IdleTruncate
  /\ IdleWorkers
  /\ IdleCapped

InitBudget == InitBudgetOf(MaxInteractions)

\* Step 1: filter to valid books, rating != 0 and is_reviewed == 0
XStep1Filter ==
  /\ pc = "x_step1"
  /\ filtered_df' = SelectSeq(interactions_df, RowValid)
  /\ pc' = "x_step2"
  /\ UNCHANGED <<budget, interactions_df, books_df, value_counts,
                 cumulative_sum, top_user_ids, sampled_interactions_df,
                 sampled_csv>>
  /\ UNCHANGED cascadeVars
  /\ UNCHANGED nonBudgetVars

\* Step 2: count, accumulate and cut
XStep2Select ==
  /\ pc = "x_step2"
  /\ \E vc \in ValueCountOrders(filtered_df) :
       /\ value_counts' = vc
       /\ cumulative_sum' = CumSum(vc)
       /\ top_user_ids' = CumSumKeep(vc, CumSum(vc), budget)
  /\ pc' = "x_step3"
  /\ UNCHANGED <<budget, interactions_df, books_df, filtered_df,
                 sampled_interactions_df, sampled_csv>>
  /\ UNCHANGED cascadeVars
  /\ UNCHANGED nonBudgetVars

\* Step 3: the interactions of the selected users
XStep3Sample ==
  /\ pc = "x_step3"
  /\ sampled_interactions_df' = RowsOfUsers(filtered_df, top_user_ids)
  /\ pc' = "x_step4"
  /\ UNCHANGED <<budget, interactions_df, books_df, filtered_df, value_counts,
                 cumulative_sum, top_user_ids, sampled_csv>>
  /\ UNCHANGED cascadeVars
  /\ UNCHANGED nonBudgetVars

\* Step 4: trim to the budget by a seeded random sample when over it
XStep4Trim ==
  /\ pc = "x_step4"
  /\ IF Len(sampled_interactions_df) > budget
     THEN \E idx \in SUBSET DOMAIN sampled_interactions_df :
            /\ Cardinality(idx) = budget
            /\ sampled_interactions_df' =
                 RowsAt(sampled_interactions_df, idx,
                        Len(sampled_interactions_df))
     ELSE UNCHANGED sampled_interactions_df
  /\ pc' = "x_step5"
  /\ UNCHANGED <<budget, interactions_df, books_df, filtered_df, value_counts,
                 cumulative_sum, top_user_ids, sampled_csv>>
  /\ UNCHANGED cascadeVars
  /\ UNCHANGED nonBudgetVars

\* Step 5: export
XStep5Export ==
  /\ pc = "x_step5"
  /\ sampled_csv' = sampled_interactions_df
  /\ files' = files \cup {"sampled_interactions_df.csv"}
  /\ pc' = "x_done"
  /\ UNCHANGED <<pct, reviews_exists, books_exists, genres_exists,
                 reviews_file, pos, user_counts, all_users_sorted,
                 top_users_old, user_id_map, book_id_map, next_user_id,
                 next_book_id, kept_users_old, kept_books_old, reviews_out,
                 genres_src, genres_dict, books_read, books_out, genres_out>>
  /\ UNCHANGED <<budget, interactions_df, books_df, filtered_df, value_counts,
                 cumulative_sum, top_user_ids, sampled_interactions_df>>
  /\ UNCHANGED nonBudgetVars

NextBudget ==
  \/ XStep1Filter \/ XStep2Select \/ XStep3Sample \/ XStep4Trim
  \/ XStep5Export

\* a run of Extra_formattingcode.py
SpecBudget == InitBudget /\ [][NextBudget]_vars

\* the two selections, by fraction and by budget: a whole run of main or a
\* run of Extra_formattingcode.py over a short interactions file
InitSelections == InitCascade \/ InitBudgetOf(MaxShortInteractions)

NextSelections == NextCascade \/ NextBudget

SpecSelections == InitSelections /\ [][NextSelections]_vars

\* ------------------------------------------------------------- sample
\* sample.py.  A CSV field is a string, modelled as a sequence of characters;
\* <<>> is the empty string, which is also what row.get(field, '') yields
\* when the file has no such column.

\* str.strip(): leading and trailing whitespace removed
RECURSIVE lstrip(_)
lstrip(s) ==
  IF s # <<>> /\ Head(s) = " " THEN lstrip(Tail(s)) ELSE s

RECURSIVE rstrip(_)
rstrip(s) ==
  IF s # <<>> /\ s[Len(s)] = " "
  THEN rstrip(SubSeq(s, 1, Len(s) - 1))
  ELSE s

strip(s) == rstrip(lstrip(s))

\* str.split(sep) for a one-character separator
RECURSIVE split(_, _)
split(s, sep) ==
  IF \E i \in DOMAIN s : s[i] = sep
  THEN LET i == CHOOSE k \in DOMAIN s :
                  s[k] = sep /\ \A j \in 1..(k - 1) : s[j] # sep
       IN <<SubSeq(s, 1, i - 1)>> \o split(SubSeq(s, i + 1, Len(s)), sep)
  ELSE <<s>>

\* sep.join(list)
RECURSIVE join(_, _)
join(list, sep) ==
  IF list = <<>> THEN <<>>
  ELSE IF Len(list) = 1 THEN list[1]
       ELSE list[1] \o <<sep>> \o join(Tail(list), sep)

\* rows of reviews.csv and of interactions.csv: user_id and book_id each
\* empty, plain or with trailing whitespace, and a row that ends before the
\* book_id column (cut), for which csv.DictReader yields None
SampleRows ==
  {[user_id |-> u, book_id |-> b, cut |-> FALSE] :
     u \in {<<>>, <<"1">>, <<"1", " ">>},
     b \in {<<>>, <<"1">>, <<"2", " ">>}} \cup
  {[user_id |-> <<"1">>, book_id |-> <<>>, cut |-> TRUE]}

SampleBookRows == {[book_id |-> b] : b \in {<<"1">>, <<"2">>}}

SampleUserRows == {[user_id |-> u] : u \in {<<"1">>, <<"2">>}}

\* rows of authors.csv: the books field empty, one book with a blank behind
\* it, two books with a blank after the separator, and a row that ends
\* before the books column (cut), for which csv.DictReader yields None
SampleAuthorRows ==
  {[author_id |-> "a1", books |-> <<>>, cut |-> FALSE],
   [author_id |-> "a1", books |-> <<"2", " ">>, cut |-> FALSE],
   [author_id |-> "a2", books |-> <<"1", ";", " ", "2">>, cut |-> FALSE],
   [author_id |-> "a1", books |-> <<>>, cut |-> TRUE]}

\* main, before it looks for reviews.csv
InitSample ==
  /\ pc = "s_main"
  /\ s_reviews \in SeqsUpTo(SampleRows, MaxSampleRows)
  /\ s_pos = 1
  /\ kept_users = {}
  /\ kept_books = {}
  /\ s_read = 0
  /\ interactions_in = <<>>
  /\ authors_read = <<>>
  /\ out_dir = EmptyMap
  /\ IdleCascade
  /\ IdleBudget
  /\ IdleAuthors
  /\ IdleTruncate
  /\ IdleWorkers
  /\ IdleCapped

\* another row may be read from an input file other than reviews.csv
MoreRows == Len(s_reviews) + s_read < MaxSampleRows

\* main: reviews.csv not found
SMainMissing ==
  /\ pc = "s_main"
  /\ s_reviews = <<>>
  /\ pc' = "s_failed"
  /\ UNCHANGED sampleVars
  /\ UNCHANGED nonSampleVars

\* main: reviews.csv opened
SMainOpen ==
  /\ pc = "s_main"
  /\ pc' = "s_scan"
  /\ UNCHANGED sampleVars
  /\ UNCHANGED nonSampleVars

\* main: one row of reviews.csv
SMainScan ==
  /\ pc = "s_scan"
  /\ s_pos <= Len(s_reviews)
  /\ LET row == s_reviews[s_pos]
         user_id == strip(row.user_id)
         book_id == strip(row.book_id)
     IN IF row.cut
        THEN \* None.strip() raises AttributeError
             /\ pc' = "s_crashed"
             /\ UNCHANGED <<kept_users, kept_books, s_pos>>
        ELSE /\ kept_users' = IF user_id # <<>>
                              THEN kept_users \cup {user_id}
                              ELSE kept_users
             /\ kept_books' = IF book_id # <<>>
                              THEN kept_books \cup {book_id}
                              ELSE kept_books
             /\ s_pos' = s_pos + 1
             /\ pc' = pc
  /\ UNCHANGED <<s_reviews, s_read, interactions_in, authors_read, out_dir>>
  /\ UNCHANGED nonSampleVars

SMainScanEnd ==
  /\ pc = "s_scan"
  /\ s_pos > Len(s_reviews)
  /\ pc' = "s_interactions"
  /\ UNCHANGED sampleVars
  /\ UNCHANGED nonSampleVars

\* a filter whose input file does not exist
FilterSkip(at, next) ==
  /\ pc = at
  /\ pc' = next
  /\ UNCHANGED sampleVars
  /\ UNCHANGED nonSampleVars

\* a filter opens its input and writes the header of its output
FilterOpen(at, loop, name) ==
  /\ pc = at
  /\ out_dir' = (name :> <<>>) @@ out_dir
  /\ s_pos' = 1
  /\ pc' = loop
  /\ UNCHANGED <<s_reviews, kept_users, kept_books, s_read, interactions_in,
                 authors_read>>
  /\ UNCHANGED nonSampleVars

\* the end of a filter's input
FilterEnd(loop, next) ==
  /\ pc = loop
  /\ pc' = next
  /\ UNCHANGED sampleVars
  /\ UNCHANGED nonSampleVars

\* the row test of filter_interactions and filter_reviews with the book
\* test left out
RowKept_user_only(row) == strip(row.user_id) \in kept_users

\* (u in kept_users) and (b in kept_books)
RowKept(row) ==
  strip(row.user_id) \in kept_users /\ strip(row.book_id) \in kept_books

\* filter_interactions, one row
FilterInteractionsRow ==
  /\ pc = "s_interactions_loop"
  /\ MoreRows
  /\ \E row \in SampleRows :
       /\ interactions_in' = Append(interactions_in, row)
       /\ IF row.cut
          THEN /\ pc' = "s_crashed"
               /\ UNCHANGED out_dir
          ELSE /\ pc' = pc
               /\ out_dir' =
                    IF RowKept(row)
                    THEN [out_dir EXCEPT
                            !["interactions.csv"] = Append(@, row)]
                    ELSE out_dir
  /\ s_read' = s_read + 1
  /\ UNCHANGED <<s_reviews, s_pos, kept_users, kept_books, authors_read>>
  /\ UNCHANGED nonSampleVars

\* filter_books, one row
FilterBooksRow ==
  /\ pc = "s_books_loop"
  /\ MoreRows
  /\ \E row \in SampleBookRows :
       out_dir' =
         IF strip(row.book_id) \in kept_books
         THEN [out_dir EXCEPT !["books.csv"] = Append(@, row)]
         ELSE out_dir
  /\ s_read' = s_read + 1
  /\ UNCHANGED <<pc, s_reviews, s_pos, kept_users, kept_books,
                 interactions_in, authors_read>>
  /\ UNCHANGED nonSampleVars

\* [b for b in old_books_list if b.strip() in kept_books]
filtered_list(old_books_str) ==
  SelectSeq(split(old_books_str, ";"), LAMBDA b : strip(b) \in kept_books)

\* filter_authors writing every row that has a kept book as it was read
filter_authors_row_unfiltered(row) ==
  LET old_books_str == strip(row.books)
  IN IF old_books_str = <<>> \/ filtered_list(old_books_str) = <<>>
     THEN <<>>
     ELSE <<row>>

\* the body of the loop of filter_authors for a row that has its books
\* column: the rows it writes, none or one
filter_authors_row(row) ==
  LET old_books_str == strip(row.books)
  IN IF old_books_str = <<>> \/ filtered_list(old_books_str) = <<>>
     THEN <<>>
     ELSE <<[row EXCEPT !.books = join(filtered_list(old_books_str), ";")]>>

\* filter_authors, one row
FilterAuthorsRow ==
  /\ pc = "s_authors_loop"
  /\ MoreRows
  /\ \E row \in SampleAuthorRows :
       /\ authors_read' = Append(authors_read, row)
       /\ IF row.cut
          THEN /\ pc' = "s_crashed"
               /\ UNCHANGED out_dir
          ELSE /\ pc' = pc
               /\ out_dir' =
                    [out_dir EXCEPT
                       !["authors.csv"] = @ \o filter_authors_row(row)]
  /\ s_read' = s_read + 1
  /\ UNCHANGED <<s_reviews, s_pos, kept_users, kept_books, interactions_in>>
  /\ UNCHANGED nonSampleVars

\* filter_users, one row
FilterUsersRow ==
  /\ pc = "s_users_loop"
  /\ MoreRows
  /\ \E row \in SampleUserRows :
       out_dir' =
         IF strip(row.user_id) \in kept_users
         THEN [out_dir EXCEPT !["users.csv"] = Append(@, row)]
         ELSE out_dir
  /\ s_read' = s_read + 1
  /\ UNCHANGED <<pc, s_reviews, s_pos, kept_users, kept_books,
                 interactions_in, authors_read>>
  /\ UNCHANGED nonSampleVars

\* filter_reviews, one row of the reviews.csv main has read
FilterReviewsRow ==
  /\ pc = "s_reviews_loop"
  /\ s_pos <= Len(s_reviews)
  /\ LET row == s_reviews[s_pos]
     IN out_dir' =
          IF RowKept(row)
          THEN [out_dir EXCEPT !["reviews.csv"] = Append(@, row)]
          ELSE out_dir
  /\ s_pos' = s_pos + 1
  /\ UNCHANGED <<pc, s_reviews, kept_users, kept_books, s_read,
                 interactions_in, authors_read>>
  /\ UNCHANGED nonSampleVars

FilterReviewsEnd ==
  /\ pc = "s_reviews_loop"
  /\ s_pos > Len(s_reviews)
  /\ pc' = "s_done"
  /\ UNCHANGED sampleVars
  /\ UNCHANGED nonSampleVars

\* filter_interactions
InteractionsSkip == FilterSkip("s_interactions", "s_books")

InteractionsOpen ==
  FilterOpen("s_interactions", "s_interactions_loop", "interactions.csv")

InteractionsEnd == FilterEnd("s_interactions_loop", "s_books")

\* filter_books
BooksSkip == FilterSkip("s_books", "s_authors")

BooksFilterOpen == FilterOpen("s_books", "s_books_loop", "books.csv")

BooksFilterEnd == FilterEnd("s_books_loop", "s_authors")

\* filter_authors
AuthorsSkip == FilterSkip("s_authors", "s_users")

AuthorsFilterOpen == FilterOpen("s_authors", "s_authors_loop", "authors.csv")

AuthorsFilterEnd == FilterEnd("s_authors_loop", "s_users")

\* filter_users
UsersSkip == FilterSkip("s_users", "s_reviews")

UsersFilterOpen == FilterOpen("s_users", "s_users_loop", "users.csv")

UsersFilterEnd == FilterEnd("s_users_loop", "s_reviews")

\* filter_reviews: main has read reviews.csv, so it is there
ReviewsFilterOpen == FilterOpen("s_reviews", "s_reviews_loop", "reviews.csv")

\* main of sample.py
NextSample ==
  \/ SMainMissing \/ SMainOpen \/ SMainScan \/ SMainScanEnd
  \/ InteractionsSkip \/ InteractionsOpen \/ FilterInteractionsRow
  \/ InteractionsEnd
  \/ BooksSkip \/ BooksFilterOpen \/ FilterBooksRow \/ BooksFilterEnd
  \/ AuthorsSkip \/ AuthorsFilterOpen \/ FilterAuthorsRow
  \/ AuthorsFilterEnd
  \/ UsersSkip \/ UsersFilterOpen \/ FilterUsersRow \/ UsersFilterEnd
  \/ ReviewsFilterOpen \/ FilterReviewsRow \/ FilterReviewsEnd

\* a run of sample.py
SpecSample == InitSample /\ [][NextSample]_vars

\* the referential filter passes: the root pass of the extractor and the
\* filters of sample.py
InitFilters == InitRoot \/ InitSample

NextFilters == NextRoot \/ NextSample

SpecFilters == InitFilters /\ [][NextFilters]_vars

\* ------------------------------------------------------------- authors
\* process_authors of the capped extractor (MAX_BOOKS, MAX_AUTHORS, ...).
\* author_id, name and role are strings; a book_id and the books field are
\* strings modelled as sequences of characters, because the script tests
\* one for being contained in the other.

BadAuthorLine ==
  [ok |-> FALSE, author_id |-> "", name |-> "", role |-> "", book_id |-> <<>>]

AuthorBookIds == {<<>>, <<"1">>, <<"2">>, <<"1", "2">>}

\* a line that does not parse, a record without author_id, and the records
\* of author a1 under two names and of author a2, each about any book
AuthorLines ==
  {BadAuthorLine,
   [ok |-> TRUE, author_id |-> "", name |-> "n1", role |-> "",
    book_id |-> <<"1">>]} \cup
  {[ok |-> TRUE, author_id |-> a.id, name |-> a.name, role |-> a.role,
    book_id |-> b] :
      a \in {[id |-> "a1", name |-> "n1", role |-> "r1"],
             [id |-> "a1", name |-> "n2", role |-> ""],
             [id |-> "a2", name |-> "n1", role |-> "r1"]},
      b \in AuthorBookIds}

InitAuthors ==
  /\ pc = "a_start"
  /\ authors_in = <<>>
  /\ seen_authors = <<>>
  /\ count = 0
  /\ authors_csv = <<>>
  /\ IdleCascade
  /\ IdleBudget
  /\ IdleSample
  /\ IdleTruncate
  /\ IdleWorkers
  /\ IdleCapped

\* author_id in seen_authors
Seen(author_id) ==
  \E i \in DOMAIN seen_authors : seen_authors[i].author_id = author_id

IndexOf(author_id) ==
  CHOOSE i \in DOMAIN seen_authors : seen_authors[i].author_id = author_id

\* needle in hay, for strings
contains(hay, needle) ==
  \E i \in 0..(Len(hay) - Len(needle)) :
    SubSeq(hay, i + 1, i + Len(needle)) = needle

\* seen_authors[author_id] = {...}
NewAuthor(record) ==
  [author_id |-> record.author_id, name |-> record.name,
   role |-> record.role, books |-> record.book_id]

\* if book_id and book_id not in existing["books"]: existing["books"] += ...
MergeBook(existing, book_id) ==
  IF book_id # <<>> /\ ~contains(existing.books, book_id)
  THEN [existing EXCEPT !.books = @ \o <<";">> \o book_id]
  ELSE existing

\* the row the loop builds from the records of one author, given in the
\* order they are read: the first creates the row, each later one merges
RECURSIVE MergedRow(_)
MergedRow(records) ==
  IF Len(records) = 1 THEN NewAuthor(records[1])
  ELSE MergeBook(MergedRow(SubSeq(records, 1, Len(records) - 1)),
                 records[Len(records)].book_id)

\* no directory entry matches "book_authors" and ".json.gz"
AuthorsMissing ==
  /\ pc = "a_start"
  /\ pc' = "a_returned"
  /\ UNCHANGED authorVars
  /\ UNCHANGED files
  /\ UNCHANGED nonAuthorVars

\* authors.csv opened and its header written
AuthorsOpen ==
  /\ pc = "a_start"
  /\ files' = files \cup {"authors.csv"}
  /\ pc' = "a_loop"
  /\ UNCHANGED authorVars
  /\ UNCHANGED nonAuthorVars

\* one line of the authors source
AuthorsStep ==
  /\ pc = "a_loop"
  /\ Len(authors_in) < MaxAuthorLines
  /\ \E record \in AuthorLines :
       /\ authors_in' = Append(authors_in, record)
       /\ IF ~record.ok \/ record.author_id = ""
          THEN /\ UNCHANGED <<seen_authors, count>>
               /\ pc' = pc
          ELSE IF ~Seen(record.author_id)
          THEN /\ seen_authors' = Append(seen_authors, NewAuthor(record))
               /\ count' = count + 1
               /\ pc' = IF count' >= MAX_AUTHORS THEN "a_emit" ELSE pc
          ELSE /\ seen_authors' =
                    [seen_authors EXCEPT
                       ![IndexOf(record.author_id)] =
                          MergeBook(@, record.book_id)]
               /\ UNCHANGED count
               /\ pc' = pc
  /\ UNCHANGED <<authors_csv, files>>
  /\ UNCHANGED nonAuthorVars

\* end of the authors source
AuthorsEnd ==
  /\ pc = "a_loop"
  /\ pc' = "a_emit"
  /\ UNCHANGED authorVars
  /\ UNCHANGED files
  /\ UNCHANGED nonAuthorVars

\* AuthorsEmit writing the rows last-seen first
AuthorsEmit_reversed ==
  /\ pc = "a_emit"
  /\ authors_csv' =
       [i \in DOMAIN seen_authors |->
          seen_authors[Len(seen_authors) + 1 - i]]
  /\ pc' = "a_done"
  /\ UNCHANGED <<authors_in, seen_authors, count, files>>
  /\ UNCHANGED nonAuthorVars

\* for author in seen_authors.values(): writer.writerow(author)
AuthorsEmit ==
  /\ pc = "a_emit"
  /\ authors_csv' = seen_authors
  /\ pc' = "a_done"
  /\ UNCHANGED <<authors_in, seen_authors, count, files>>
  /\ UNCHANGED nonAuthorVars

NextAuthors ==
  \/ AuthorsMissing \/ AuthorsOpen \/ AuthorsStep \/ AuthorsEnd
  \/ AuthorsEmit

\* a call of process_authors
SpecAuthors == InitAuthors /\ [][NextAuthors]_vars

\* the passes that write rows: a whole run of main or a call of
\* process_authors
InitWriters == InitCascade \/ InitAuthors

NextWriters == NextCascade \/ NextAuthors

SpecWriters == InitWriters /\ [][NextWriters]_vars

\* ------------------------------------------------------------- caps
\* process_books, process_reviews and process_interactions of the capped
\* extractor. A line is one that does not parse ("bad"), a record or row of
\* rating 0 or of a rating that is no number ("zero"), a rated one
\* ("rated"), or a CSV row on which the loop body raises ("cut"): one that
\* ends before the rating column, or one with a column the writer has no
\* field for.

nonCappedVars ==
  <<cascadeVars, budgetVars, sampleVars, truncVars, workerVars>>

\* a call of one of the three functions
InitCapped ==
  /\ pc \in {"k_books", "k_reviews", "k_interactions"}
  /\ total_count = 0
  /\ rows_written = 0
  /\ lines_read = 0
  /\ files_left \in (IF pc = "k_books" THEN 0..1 ELSE 0..MaxCapFiles)
  /\ json_files \in (IF pc = "k_interactions" THEN 0..MaxCapFiles ELSE {0})
  /\ IdleCascade
  /\ IdleBudget
  /\ IdleSample
  /\ IdleAuthors
  /\ IdleTruncate
  /\ IdleWorkers

\* process_books: the books file does not exist
CapBooksMissing ==
  /\ pc = "k_books"
  /\ files_left = 0
  /\ pc' = "k_books_returned"
  /\ UNCHANGED <<authorVars, cappedVars, nonCappedVars>>

CapBooksOpen ==
  /\ pc = "k_books"
  /\ files_left > 0
  /\ files_left' = files_left - 1
  /\ pc' = "k_books_loop"
  /\ UNCHANGED <<authorVars, total_count, rows_written, lines_read,
                 json_files, nonCappedVars>>

\* process_books, one line
CapBooksLine ==
  /\ pc = "k_books_loop"
  /\ lines_read < MaxCapLines
  /\ lines_read' = lines_read + 1
  /\ \E line \in {"bad", "rated"} :
       IF line = "bad"
       THEN UNCHANGED <<pc, count, rows_written>>
       ELSE /\ rows_written' = rows_written + 1
            /\ count' = count + 1
            /\ pc' = IF count' >= MAX_BOOKS THEN "k_books_returned" ELSE pc
  /\ UNCHANGED <<authors_in, seen_authors, authors_csv, total_count,
                 files_left, json_files, nonCappedVars>>

CapBooksEnd ==
  /\ pc = "k_books_loop"
  /\ pc' = "k_books_returned"
  /\ UNCHANGED <<authorVars, cappedVars, nonCappedVars>>

\* process_reviews: no review file in the directory
CapReviewsNone ==
  /\ pc = "k_reviews"
  /\ files_left = 0
  /\ pc' = "k_reviews_returned"
  /\ UNCHANGED <<authorVars, cappedVars, nonCappedVars>>

\* reviews.csv opened and its header written
CapReviewsOpen ==
  /\ pc = "k_reviews"
  /\ files_left > 0
  /\ pc' = "k_reviews_files"
  /\ UNCHANGED <<authorVars, cappedVars, nonCappedVars>>

\* CapReviewsNextFile starting the count of each file at zero
CapReviewsNextFile_reset ==
  /\ pc = "k_reviews_files"
  /\ files_left > 0
  /\ files_left' = files_left - 1
  /\ total_count' = 0
  /\ pc' = "k_reviews_loop"
  /\ UNCHANGED <<authorVars, rows_written, lines_read, json_files,
                 nonCappedVars>>

\* for rfile in review_files: the next file is opened
CapReviewsNextFile ==
  /\ pc = "k_reviews_files"
  /\ files_left > 0
  /\ files_left' = files_left - 1
  /\ pc' = "k_reviews_loop"
  /\ UNCHANGED <<authorVars, total_count, rows_written, lines_read,
                 json_files, nonCappedVars>>

CapReviewsFilesEnd ==
  /\ pc = "k_reviews_files"
  /\ files_left = 0
  /\ pc' = "k_reviews_returned"
  /\ UNCHANGED <<authorVars, cappedVars, nonCappedVars>>

\* process_reviews, one line
CapReviewsLine ==
  /\ pc = "k_reviews_loop"
  /\ lines_read < MaxCapLines
  /\ lines_read' = lines_read + 1
  /\ \E line \in {"bad", "zero", "rated"} :
       IF line # "rated"
       THEN UNCHANGED <<pc, total_count, rows_written>>
       ELSE /\ rows_written' = rows_written + 1
            /\ total_count' = total_count + 1
            /\ pc' = IF total_count' >= MAX_REVIEWS
                     THEN "k_reviews_after" ELSE pc
  /\ UNCHANGED <<authorVars, files_left, json_files, nonCappedVars>>

\* the end of a review file
CapReviewsFileEnd ==
  /\ pc = "k_reviews_loop"
  /\ pc' = "k_reviews_after"
  /\ UNCHANGED <<authorVars, cappedVars, nonCappedVars>>

\* the test behind the loop over the lines of a file
CapReviewsAfter ==
  /\ pc = "k_reviews_after"
  /\ pc' = IF total_count >= MAX_REVIEWS
           THEN "k_reviews_returned" ELSE "k_reviews_files"
  /\ UNCHANGED <<authorVars, cappedVars, nonCappedVars>>

\* interactions.csv opened and its header written
CapInteractionsOpen ==
  /\ pc = "k_interactions"
  /\ pc' = "k_csv_files"
  /\ UNCHANGED <<authorVars, cappedVars, nonCappedVars>>

\* the next interaction file that ends in .csv is opened
CapCsvNextFile ==
  /\ pc = "k_csv_files"
  /\ files_left > 0
  /\ files_left' = files_left - 1
  /\ pc' = "k_csv_loop"
  /\ UNCHANGED <<authorVars, total_count, rows_written, lines_read,
                 json_files, nonCappedVars>>

CapCsvFilesEnd ==
  /\ pc = "k_csv_files"
  /\ files_left = 0
  /\ pc' = "k_json_test"
  /\ UNCHANGED <<authorVars, cappedVars, nonCappedVars>>

\* one row of a CSV file; the TypeError of float(None) and the ValueError
\* of writer.writerow are not caught
CapCsvRow ==
  /\ pc = "k_csv_loop"
  /\ lines_read < MaxCapLines
  /\ lines_read' = lines_read + 1
  /\ \E row \in {"zero", "rated", "cut"} :
       IF row = "cut"
       THEN /\ pc' = "k_crashed"
            /\ UNCHANGED <<total_count, rows_written>>
       ELSE IF row = "zero"
       THEN UNCHANGED <<pc, total_count, rows_written>>
       ELSE /\ rows_written' = rows_written + 1
            /\ total_count' = total_count + 1
            /\ pc' = IF total_count' >= MAX_INTERACTIONS
                     THEN "k_csv_after" ELSE pc
  /\ UNCHANGED <<authorVars, files_left, json_files, nonCappedVars>>

CapCsvFileEnd ==
  /\ pc = "k_csv_loop"
  /\ pc' = "k_csv_after"
  /\ UNCHANGED <<authorVars, cappedVars, nonCappedVars>>

CapCsvAfter ==
  /\ pc = "k_csv_after"
  /\ pc' = IF total_count >= MAX_INTERACTIONS
           THEN "k_json_test" ELSE "k_csv_files"
  /\ UNCHANGED <<authorVars, cappedVars, nonCappedVars>>

\* CapJsonTest entering the JSON files whatever the count
CapJsonTest_always ==
  /\ pc = "k_json_test"
  /\ files_left' = json_files
  /\ pc' = "k_json_files"
  /\ UNCHANGED <<authorVars, total_count, rows_written, lines_read,
                 json_files, nonCappedVars>>

\* if total_count < MAX_INTERACTIONS: the JSON files are gone through
CapJsonTest ==
  /\ pc = "k_json_test"
  /\ IF total_count < MAX_INTERACTIONS
     THEN /\ files_left' = json_files
          /\ pc' = "k_json_files"
     ELSE /\ pc' = "k_interactions_returned"
          /\ UNCHANGED files_left
  /\ UNCHANGED <<authorVars, total_count, rows_written, lines_read,
                 json_files, nonCappedVars>>

CapJsonNextFile ==
  /\ pc = "k_json_files"
  /\ files_left > 0
  /\ files_left' = files_left - 1
  /\ pc' = "k_json_loop"
  /\ UNCHANGED <<authorVars, total_count, rows_written, lines_read,
                 json_files, nonCappedVars>>

CapJsonFilesEnd ==
  /\ pc = "k_json_files"
  /\ files_left = 0
  /\ pc' = "k_interactions_returned"
  /\ UNCHANGED <<authorVars, cappedVars, nonCappedVars>>

\* one line of a JSON file
CapJsonLine ==
  /\ pc = "k_json_loop"
  /\ lines_read < MaxCapLines
  /\ lines_read' = lines_read + 1
  /\ \E line \in {"bad", "zero", "rated"} :
       IF line # "rated"
       THEN UNCHANGED <<pc, total_count, rows_written>>
       ELSE /\ rows_written' = rows_written + 1
            /\ total_count' = total_count + 1
            /\ pc' = IF total_count' >= MAX_INTERACTIONS
                     THEN "k_json_after" ELSE pc
  /\ UNCHANGED <<authorVars, files_left, json_files, nonCappedVars>>

CapJsonFileEnd ==
  /\ pc = "k_json_loop"
  /\ pc' = "k_json_after"
  /\ UNCHANGED <<authorVars, cappedVars, nonCappedVars>>

CapJsonAfter ==
  /\ pc = "k_json_after"
  /\ pc' = IF total_count >= MAX_INTERACTIONS
           THEN "k_interactions_returned" ELSE "k_json_files"
  /\ UNCHANGED <<authorVars, cappedVars, nonCappedVars>>

NextCapped ==
  \/ CapBooksMissing \/ CapBooksOpen \/ CapBooksLine \/ CapBooksEnd
  \/ CapReviewsNone \/ CapReviewsOpen \/ CapReviewsNextFile
  \/ CapReviewsFilesEnd \/ CapReviewsLine \/ CapReviewsFileEnd
  \/ CapReviewsAfter
  \/ CapInteractionsOpen \/ CapCsvNextFile \/ CapCsvFilesEnd \/ CapCsvRow
  \/ CapCsvFileEnd \/ CapCsvAfter
  \/ CapJsonTest \/ CapJsonNextFile \/ CapJsonFilesEnd \/ CapJsonLine
  \/ CapJsonFileEnd \/ CapJsonAfter

\* the four capped functions of the extractor, each called alone
InitCaps == InitCapped \/ InitAuthors

NextCaps == NextCapped \/ NextAuthors

SpecCaps == InitCaps /\ [][NextCaps]_vars

\* ------------------------------------------------------------- truncate
\* safe_truncate, the same function in both extractors.  A text is a
\* sequence of characters.

Texts == SeqsUpTo({"a", "."}, MaxTextLen)

\* safe_truncate cutting without the marker
safe_truncate_bare(t, n) ==
  IF t = <<>> THEN <<>>
  ELSE IF Len(t) <= n THEN t ELSE SubSeq(t, 1, n)

\* if not text: return ""
\* return text if len(text) <= max_length else text[:max_length] + "..."
safe_truncate(t, n) ==
  IF t = <<>> THEN <<>>
  ELSE IF Len(t) <= n THEN t ELSE SubSeq(t, 1, n) \o <<".", ".", ".">>

\* a call of safe_truncate with some text and some non-negative max_length
InitTruncate ==
  /\ pc = "t_call"
  /\ text \in Texts
  /\ max_length \in 0..MaxTruncate
  /\ result = <<>>
  /\ IdleCascade
  /\ IdleBudget
  /\ IdleSample
  /\ IdleAuthors
  /\ IdleWorkers
  /\ IdleCapped

Truncate ==
  /\ pc = "t_call"
  /\ result' = safe_truncate(text, max_length)
  /\ pc' = "t_returned"
  /\ UNCHANGED <<text, max_length>>
  /\ UNCHANGED <<cascadeVars, budgetVars, sampleVars, authorVars, workerVars,
                 cappedVars>>

NextTruncate == Truncate

SpecTruncate == InitTruncate /\ [][NextTruncate]_vars

\* ============================================================= claims
\* ---- shared vocabulary
Injective(f) == \A a, b \in DOMAIN f : f[a] = f[b] => a = b

Values(f) == {f[k] : k \in DOMAIN f}

\* process_reviews has made its selection
Selected == reviews_exists /\ pc \notin {"start", "pass1", "select"}

\* lines of the reviews source that pass 2 has gone through
Pass2Done ==
  IF pc \in {"start", "pass1", "select"} THEN 0
  ELSE IF pc = "pass2" THEN pos - 1
  ELSE Len(reviews_file)

\* what the reviews source says, read off the file itself
FileUsers ==
  {reviews_file[i].user_id :
     i \in {j \in DOMAIN reviews_file :
              reviews_file[j].ok /\ reviews_file[j].user_id # ""}}

FileCount(u) ==
  Cardinality({i \in DOMAIN reviews_file :
                 reviews_file[i].ok /\ reviews_file[i].user_id = u})

FirstPos(u) ==
  CHOOSE i \in DOMAIN reviews_file :
    /\ reviews_file[i].ok /\ reviews_file[i].user_id = u
    /\ \A j \in 1..(i - 1) :
         ~(reviews_file[j].ok /\ reviews_file[j].user_id = u)

\* v is ranked before u: more reviews, or as many and seen earlier
RankedBefore(v, u) ==
  \/ FileCount(v) > FileCount(u)
  \/ FileCount(v) = FileCount(u) /\ FirstPos(v) < FirstPos(u)

RankedTop(n) ==
  {u \in FileUsers :
     Cardinality({v \in FileUsers : RankedBefore(v, u)}) < n}

\* floor(p x N) for the fraction p = pct / 100
FloorShare(n) == (n * pct) \div 100

\* the distinct elements of a sequence, in order of first occurrence
RECURSIVE Distinct(_)
Distinct(s) ==
  IF s = <<>> THEN <<>>
  ELSE LET d == Distinct(SubSeq(s, 1, Len(s) - 1))
       IN IF s[Len(s)] \in Range(d) THEN d ELSE Append(d, s[Len(s)])

\* the lines pass 2 has gone through and let through, in source order
RECURSIVE AcceptedUpTo(_)
AcceptedUpTo(n) ==
  IF n = 0 THEN <<>>
  ELSE IF reviews_file[n].ok /\ reviews_file[n].user_id \in top_users_old
       THEN Append(AcceptedUpTo(n - 1), reviews_file[n])
       ELSE AcceptedUpTo(n - 1)

LookedUpUsers ==
  LET a == AcceptedUpTo(Pass2Done)
  IN Distinct([i \in DOMAIN a |-> a[i].user_id])

LookedUpBooks ==
  LET a == AcceptedUpTo(Pass2Done)
  IN Distinct([i \in DOMAIN a |-> a[i].book_id])

\* ---- C1
\* C1: after a whole run over existing sources, every row of reviews.csv
\* has a book_id that some row of books.csv has too, and no written review
\* lacks a book_id.
C1_ReviewsResolveToBooks ==
  (pc = "done" /\ reviews_exists /\ books_exists) =>
    \A i \in DOMAIN reviews_out :
      /\ reviews_out[i].rec.book_id # ""
      /\ \E j \in DOMAIN books_out :
           books_out[j].book_id = reviews_out[i].book_id

\* ---- C2
\* C2: every row of books.csv and of genres.csv carries book_id_map[b] for
\* the original identifier b of its record, b is in kept_books_old, and b is
\* the book of a written review.
C2_RowKept(row) ==
  LET b == row.rec.book_id
  IN /\ b \in kept_books_old
     /\ b \in DOMAIN book_id_map
     /\ row.book_id = book_id_map[b]
     /\ \E i \in DOMAIN reviews_out : reviews_out[i].rec.book_id = b

C2_OutputsOnlyKeptBooks ==
  /\ \A j \in DOMAIN books_out : C2_RowKept(books_out[j])
  /\ \A j \in DOMAIN genres_out : C2_RowKept(genres_out[j])

\* a run that wrote a book row and a genre row while some book of the
\* corpus is referenced by no written review
C2_Witness ==
  /\ pc = "done"
  /\ books_out # <<>>
  /\ genres_out # <<>>
  /\ \E b \in BookIds : b \notin kept_books_old

\* ---- C3
\* C3: in each identifier map two distinct original IDs never share a
\* remapped ID, and every lookup made so far returned the value the map
\* holds now: rows of the same original ID carry the same remapped ID.
C3_RemapStableInjective ==
  /\ Injective(user_id_map)
  /\ Injective(book_id_map)
  /\ \A i \in DOMAIN reviews_out :
       /\ reviews_out[i].rec.user_id \in DOMAIN user_id_map
       /\ reviews_out[i].user_id = user_id_map[reviews_out[i].rec.user_id]
       /\ reviews_out[i].rec.book_id \in DOMAIN book_id_map
       /\ reviews_out[i].book_id = book_id_map[reviews_out[i].rec.book_id]

\* an original user looked up twice while another user is mapped too
C3_Witness ==
  /\ Cardinality(DOMAIN user_id_map) = 2
  /\ \E i, j \in DOMAIN reviews_out :
       i # j /\ reviews_out[i].rec.user_id = reviews_out[j].rec.user_id

\* ---- C4
\* C4: at every point of process_reviews each map holds exactly the distinct
\* IDs looked up so far, the k-th of them mapped to k, the next counter is
\* one past their number, and no step removes a key.
C4_DenseState ==
  /\ DOMAIN user_id_map = Range(LookedUpUsers)
  /\ \A k \in DOMAIN LookedUpUsers : user_id_map[LookedUpUsers[k]] = k
  /\ next_user_id = Len(LookedUpUsers) + 1
  /\ DOMAIN book_id_map = Range(LookedUpBooks)
  /\ \A k \in DOMAIN LookedUpBooks : book_id_map[LookedUpBooks[k]] = k
  /\ next_book_id = Len(LookedUpBooks) + 1

C4_KeysGrow ==
  /\ DOMAIN user_id_map \subseteq DOMAIN user_id_map'
  /\ DOMAIN book_id_map \subseteq DOMAIN book_id_map'

C4_DenseFirstSeen == [](C4_DenseState) /\ [][C4_KeysGrow]_vars

\* the two counters stand at different values
C4_Witness ==
  /\ pc = "pass2"
  /\ next_user_id = 2
  /\ next_book_id = 3

\* ---- C5
\* C5: the selected set has floor(p x N) users, N the number of distinct
\* non-empty user_ids of the parseable lines, and no selected user has
\* fewer reviews than a user left out.
C5_FractionTopCount ==
  Selected =>
    /\ Cardinality(top_users_old) = FloorShare(Cardinality(FileUsers))
    /\ \A k \in top_users_old : \A n \in FileUsers \ top_users_old :
         FileCount(k) >= FileCount(n)

\* a user seen later with more reviews is selected over the first-seen one
C5_Witness ==
  /\ Selected
  /\ \E k \in top_users_old : \E n \in FileUsers \ top_users_old :
       FileCount(k) > FileCount(n) /\ FirstPos(n) < FirstPos(k)

\* ---- C6
\* Extra_formattingcode.py has made its selection
SelectedX == pc \in {"x_step3", "x_step4", "x_step5", "x_done"}

\* the users at the first k places of the descending order
PrefixUsers(k) == {value_counts[i].user : i \in 1..k}

\* the number of filtered interactions of those users
PrefixRows(k) ==
  Cardinality({i \in DOMAIN filtered_df :
                 filtered_df[i].user_id \in PrefixUsers(k)})

\* the length of the longest prefix whose interactions fit the budget
MaxPrefix ==
  CHOOSE k \in 0..Len(value_counts) :
    /\ PrefixRows(k) <= budget
    /\ \A m \in (k + 1)..Len(value_counts) : PrefixRows(m) > budget

\* C6: the users are ordered by descending interaction count and the kept
\* set is exactly the longest prefix of that order whose cumulative count
\* is at most the budget.
C6_BudgetMaximalPrefix ==
  SelectedX =>
    /\ \A i \in DOMAIN value_counts :
         /\ value_counts[i].count =
              RowCount(filtered_df, value_counts[i].user)
         /\ \A j \in i..Len(value_counts) :
              value_counts[i].count >= value_counts[j].count
    /\ PrefixUsers(Len(value_counts)) =
         {filtered_df[i].user_id : i \in DOMAIN filtered_df}
    /\ top_user_ids = PrefixUsers(MaxPrefix)

\* a user behind the cut is left out although its own count would still fit
C6_Witness ==
  /\ SelectedX
  /\ top_user_ids # {}
  /\ \E i \in DOMAIN value_counts :
       /\ value_counts[i].user \notin top_user_ids
       /\ PrefixRows(MaxPrefix) + value_counts[i].count <= budget

C8_EmptyRunCompletes ==
  /\ (Selected /\ top_users_old = {}) =>
       /\ pc # "done" => ENABLED NextSelections
       /\ pc = "done" =>
            /\ "reviews.csv" \in files
            /\ books_exists => "books.csv" \in files
            /\ genres_exists => "genres.csv" \in files
            /\ reviews_out = <<>> /\ books_out = <<>> /\ genres_out = <<>>
  /\ (SelectedX /\ top_user_ids = {}) =>
       /\ pc # "x_done" => ENABLED NextSelections
       /\ pc = "x_done" =>
            /\ "sampled_interactions_df.csv" \in files
            /\ sampled_csv = <<>>

\* nobody is selected although the source has a user who reviewed a book,
\* and both dependent sources were read
C8_Witness ==
  /\ pc = "done"
  /\ Selected
  /\ top_users_old = {}
  /\ FileUsers # {}
  /\ files = {"reviews.csv", "books.csv", "genres.csv"}
  /\ books_read > 0
  /\ genres_src # <<>>

\* ---- C9
\* both key fields of a row are there, non-empty once stripped, and members
\* of their kept sets
C9_BothKept(row) ==
  /\ ~row.cut
  /\ strip(row.user_id) # <<>> /\ strip(row.user_id) \in kept_users
  /\ strip(row.book_id) # <<>> /\ strip(row.book_id) \in kept_books

\* rows of reviews.csv that filter_reviews has gone through
C9_ReviewsRead ==
  IF pc = "s_reviews_loop" THEN s_pos - 1
  ELSE IF pc = "s_done" THEN Len(s_reviews)
  ELSE 0

C9_TopUser(line) ==
  line.ok /\ line.user_id # "" /\ line.user_id \in top_users_old

C10_BelowCap == pc = "a_done" /\ count < MAX_AUTHORS

\* the parseable records read for an author, in source order
C10_RecordsOf(a) ==
  SelectSeq(authors_in, LAMBDA r : r.ok /\ r.author_id = a)

\* the values a books field lists
C10_Listed(books) == split(books, ";")

\* C10: after process_authors has read its source without reaching the cap,
\* the row of each author has the name and role of the author's first
\* record, and its books field lists each non-empty book_id of the author's
\* records exactly once and nothing else.
C10_AuthorsMerged ==
  C10_BelowCap =>
    \A a \in {"a1", "a2"} :
      C10_RecordsOf(a) # <<>> =>
        \E i \in DOMAIN authors_csv :
          LET row == authors_csv[i]
              listed == C10_Listed(row.books)
              recs == C10_RecordsOf(a)
          IN /\ row.author_id = a
             /\ row.name = recs[1].name
             /\ row.role = recs[1].role
             /\ {listed[k] : k \in DOMAIN listed} \ {<<>>} =
                  {recs[k].book_id : k \in DOMAIN recs} \ {<<>>}
             /\ \A j, k \in DOMAIN listed :
                  (listed[j] = listed[k] /\ listed[j] # <<>>) => j = k

\* ---- C11
\* the orders in which n records can be presented
C11_Orders(n) == {p \in [1..n -> 1..n] : \A i, j \in 1..n : p[i] = p[j] => i = j}

\* the non-empty values a books field lists
C11_BookSet(books) ==
  {C10_Listed(books)[k] : k \in DOMAIN C10_Listed(books)} \ {<<>>}

\* the row of author a in authors.csv
C11_RowOf(a) ==
  authors_csv[CHOOSE i \in DOMAIN authors_csv : authors_csv[i].author_id = a]

\* C11: after process_authors has read its source without reaching the cap,
\* the set of book identifiers its row lists for an author is the set every
\* other order of that author's records would have produced.
C11_BooksOrderIndependent ==
  C10_BelowCap =>
    \A a \in {"a1", "a2"} :
      LET recs == C10_RecordsOf(a)
      IN recs # <<>> =>
           /\ C11_RowOf(a) = MergedRow(recs)
           /\ \A p \in C11_Orders(Len(recs)) :
                C11_BookSet(MergedRow([i \in 1..Len(recs) |-> recs[p[i]]]).books) =
                  C11_BookSet(C11_RowOf(a).books)

\* ---- C12
\* main is in load_genres, process_books or process_genres, or has printed
\* "Extraction complete"
C12_PastRoot ==
  pc \in {"load_genres", "lg_loop", "books", "books_loop", "genres",
          "genres_loop", "done"}

\* C12: when the reviews file is missing no dependent stage is entered, no
\* dependent output is created and the run does not reach its normal end.
C12_MissingRootAborts ==
  ~reviews_exists =>
    /\ ~C12_PastRoot
    /\ "books.csv" \notin files
    /\ "genres.csv" \notin files

\* ---- C13
\* load_genres has returned
C13_GenresLoaded ==
  pc \in {"books", "books_loop", "genres", "genres_loop", "done"}

C13_SkippedOnly ==
  (reviews_exists /\ (~books_exists \/ ~genres_exists)) =>
    /\ (~genres_exists /\ C13_GenresLoaded) => genres_dict = EmptyMap
    /\ ~books_exists => (books_out = <<>> /\ "books.csv" \notin files)
    /\ ~genres_exists => (genres_out = <<>> /\ "genres.csv" \notin files)
    /\ pc # "done" => ENABLED Next
    /\ pc = "done" =>
         /\ "reviews.csv" \in files
         /\ books_exists => "books.csv" \in files
         /\ genres_exists => "genres.csv" \in files

C13_RootResultKept ==
  C12_PastRoot =>
    UNCHANGED <<kept_users_old, kept_books_old, user_id_map, book_id_map>>

\* C13: when the books file or the genres file is missing, load_genres
\* yields an empty mapping and the stage of the missing file writes nothing,
\* the run never stops short of its end, every stage whose source exists
\* has written its output at the end, and no step after the root pass
\* changes the kept sets or the identifier maps.
C13_MissingDependentSkipped ==
  [](C13_SkippedOnly) /\ [][C13_RootResultKept]_vars

\* a run without a books file that wrote a review and a genre row
C13_Witness ==
  /\ pc = "done"
  /\ ~books_exists
  /\ genres_exists
  /\ reviews_out # <<>>
  /\ genres_out # <<>>

\* ---- C14
\* C14: safe_truncate returns a text of at most max_length characters as it
\* is, the empty text included; of a longer text it returns the first
\* max_length characters followed by three dots, max_length + 3 characters
\* in all; no result is longer than that.
C14_TruncateExact ==
  pc = "t_returned" =>
    /\ Len(text) <= max_length => result = text
    /\ Len(text) > max_length =>
         /\ Len(result) = max_length + 3
         /\ \A i \in 1..max_length : result[i] = text[i]
         /\ \A i \in (max_length + 1)..(max_length + 3) : result[i] = "."
    /\ Len(result) <= max_length + 3

\* a text longer than a positive max_length was cut
C14_Witness ==
  /\ pc = "t_returned"
  /\ max_length > 0
  /\ Len(text) > max_length
  /\ result # text

\* ---- C15
\* the root pass has returned
C15_RootDone == pc \notin {"start", "pass1", "select", "pass2"}

\* the lines of user u in the reviews source, in source order
C15_LinesOf(u) == SelectSeq(reviews_file, LAMBDA line : line.user_id = u)

\* the books only user u2 reviewed
C15_OnlyU2Books ==
  {C15_LinesOf("u2")[i].book_id : i \in DOMAIN C15_LinesOf("u2")} \
  {C15_LinesOf("u1")[i].book_id : i \in DOMAIN C15_LinesOf("u1")}

\* C15: with two reviews of u1, one of u2 and p = 0.5 the selection is
\* {u1}; reviews.csv ends with exactly the two reviews of u1, each with
\* user_id 1; a book only u2 reviewed never gets an entry in book_id_map
\* nor a row in books.csv.
C15_ScenarioKeepsU1 ==
  /\ Selected => top_users_old = {"u1"}
  /\ C15_RootDone =>
       /\ [i \in DOMAIN reviews_out |-> reviews_out[i].rec] = C15_LinesOf("u1")
       /\ \A i \in DOMAIN reviews_out : reviews_out[i].user_id = 1
  /\ \A b \in C15_OnlyU2Books :
       /\ b \notin DOMAIN book_id_map
       /\ \A j \in DOMAIN books_out : books_out[j].rec.book_id # b

\* the whole run ended, u2 reviewed a book u1 did not, and of two lines of
\* the books source one became a row of books.csv
C15_Witness ==
  /\ pc = "done"
  /\ C15_OnlyU2Books \cap BookIds # {}
  /\ books_read = 2
  /\ Len(books_out) = 1
  /\ Len(reviews_out) = 2

\* ---- C16
\* the rows follow their source: each was built from the source line it
\* names and the lines named go up
C16_SourceOrder(rows) ==
  \A i, j \in DOMAIN rows : i < j => rows[i].src < rows[j].src

\* the values of a column appear first in the order 1, 2, 3, ...
C16_FirstSeenUp(col) ==
  \A i \in DOMAIN col :
    \/ \E k \in 1..(i - 1) : col[k] = col[i]
    \/ col[i] = Cardinality({col[k] : k \in 1..(i - 1)}) + 1

\* where the first record of an author stands in the authors source
C16_FirstRecord(a) ==
  CHOOSE i \in DOMAIN authors_in :
    /\ authors_in[i].ok /\ authors_in[i].author_id = a
    /\ \A k \in 1..(i - 1) :
         ~(authors_in[k].ok /\ authors_in[k].author_id = a)

\* C16: reviews.csv, books.csv and genres.csv list their rows in the order
\* of the source lines they come from, the remapped user and book ids of
\* reviews.csv appear first in the order 1, 2, 3, ..., and authors.csv
\* lists the authors in the order of their first records.
C16_RowsInAcceptanceOrder ==
  /\ C16_SourceOrder(reviews_out)
  /\ \A i \in DOMAIN reviews_out :
       reviews_out[i].rec = reviews_file[reviews_out[i].src]
  /\ C16_FirstSeenUp([i \in DOMAIN reviews_out |-> reviews_out[i].user_id])
  /\ C16_FirstSeenUp([i \in DOMAIN reviews_out |-> reviews_out[i].book_id])
  /\ C16_SourceOrder(books_out)
  /\ C16_SourceOrder(genres_out)
  /\ \A i, j \in DOMAIN authors_csv :
       i < j => C16_FirstRecord(authors_csv[i].author_id) <
                  C16_FirstRecord(authors_csv[j].author_id)

\* books.csv lists book 2 before book 1: the books source has them in the
\* other order than the reviews
C16_Witness ==
  /\ pc = "done"
  /\ Len(books_out) = 2
  /\ books_out[1].book_id = 2
  /\ books_out[2].book_id = 1

\* ---- C17
\* the parseable records of user u among the first n lines of the source
C17_CountUpTo(u, n) ==
  Cardinality({i \in 1..n : reviews_file[i].ok /\ reviews_file[i].user_id = u})

\* the lines pass 1 has gone through
C17_Pass1Done ==
  IF pc = "start" THEN 0
  ELSE IF pc = "pass1" THEN pos - 1
  ELSE Len(reviews_file)

C17_CountsMatch ==
  reviews_exists =>
    /\ C17_Pass1Done \in 0..Len(reviews_file)
    /\ \A u \in UserIds :
         CountOf(user_counts, u) = C17_CountUpTo(u, C17_Pass1Done)
    /\ CountedUsers(user_counts) =
         {u \in UserIds : C17_CountUpTo(u, C17_Pass1Done) > 0}

C17_ForwardPass ==
  pc = "pass1" =>
    /\ pc' = "pass1" => pos' = pos + 1
    /\ pc' # "pass1" => pos = Len(reviews_file) + 1
    /\ (pos <= Len(reviews_file) /\ ~reviews_file[pos].ok) =>
         user_counts' = user_counts

\* C17: while pass 1 runs and after it, user_counts holds for every user the
\* number of parseable records of that user among the lines gone through
\* and holds no other key; the pass takes the lines one by one from the
\* first to the last, a line that does not parse changes no count, and the
\* pass ends only behind the last line.
C17_Pass1Counts == [](C17_CountsMatch) /\ [][C17_ForwardPass]_vars

\* pass 1 ended after a line that does not parse stood between two records
\* of one user
C17_Witness ==
  /\ pc = "select"
  /\ Len(reviews_file) = 3
  /\ ~reviews_file[2].ok
  /\ \E u \in UserIds : CountOf(user_counts, u) = 2

\* ---- C18
\* the reviews pass 2 has accepted and written
C18_Written == {reviews_out[i].rec : i \in DOMAIN reviews_out}

C18_OnlyAccepted ==
  /\ DOMAIN user_id_map \subseteq top_users_old
  /\ DOMAIN user_id_map = {r.user_id : r \in C18_Written}
  /\ DOMAIN book_id_map = {r.book_id : r \in C18_Written}

C18_RejectedLeavesMaps ==
  /\ (pc = "pass2" /\ pos <= Len(reviews_file)
        /\ ~(reviews_file[pos].ok
               /\ reviews_file[pos].user_id \in top_users_old)) =>
       /\ user_id_map' = user_id_map
       /\ book_id_map' = book_id_map
       /\ reviews_out' = reviews_out
  /\ reviews_out' = reviews_out =>
       /\ user_id_map' = user_id_map
       /\ book_id_map' = book_id_map

\* C18: in every state of the root pass every key of user_id_map is in
\* top_users_old and is the user of a written review, every key of
\* book_id_map is the book_id of a written review, and a step over a review
\* that is rejected, like every step that writes no review, leaves both
\* maps as they were.
C18_MapsHoldAcceptedOnly ==
  [](C18_OnlyAccepted) /\ [][C18_RejectedLeavesMaps]_vars

\* pass 2 ended having rejected a parseable review whose user and book
\* appear in no map, while other reviews were mapped
C18_Witness ==
  /\ pc = "main_318"
  /\ reviews_out # <<>>
  /\ \E i \in DOMAIN reviews_file :
       /\ reviews_file[i].ok
       /\ reviews_file[i].user_id \notin top_users_old
       /\ reviews_file[i].user_id \notin DOMAIN user_id_map
       /\ reviews_file[i].book_id \notin DOMAIN book_id_map

\* ---- C19
\* the non-empty book identifiers of the records process_authors has taken
C19_BooksSeen ==
  {authors_in[i].book_id :
     i \in {j \in DOMAIN authors_in :
              authors_in[j].ok /\ authors_in[j].author_id # ""}} \ {<<>>}

\* the dense maps over those identifiers: each gets one of 1..n, none twice
C19_DenseMaps ==
  {m \in [C19_BooksSeen -> 1..Cardinality(C19_BooksSeen)] :
     \A b, c \in C19_BooksSeen : m[b] = m[c] => b = c}

\* a remapped identifier as the writer renders it
C19_Decimal(k) == <<(<<"1", "2", "3", "4", "5", "6", "7", "8", "9">>)[k]>>

\* C19: in authors.csv every value a books field lists is the dense
\* sequential identifier of one of that author's original book identifiers
\* under one map shared by all rows.
C19_BooksAreRemapped ==
  pc = "a_done" =>
    \E m \in C19_DenseMaps :
      \A i \in DOMAIN authors_csv :
        LET listed == C10_Listed(authors_csv[i].books)
            recs == C10_RecordsOf(authors_csv[i].author_id)
        IN \A k \in DOMAIN listed :
             listed[k] # <<>> =>
               \E j \in DOMAIN recs :
                 /\ recs[j].book_id # <<>>
                 /\ listed[k] = C19_Decimal(m[recs[j].book_id])

\* ---- C20
\* the rows process_books, run alone from start to end, writes for the
\* first n lines of the books source
RECURSIVE C20_BooksSequential(_)
C20_BooksSequential(n) ==
  IF n = 0 THEN <<>>
  ELSE LET line == books_file[n]
           before == C20_BooksSequential(n - 1)
       IN IF /\ line.ok
             /\ line.book_id \in kept_books_old
             /\ line.book_id \in DOMAIN book_id_map
          THEN Append(before,
                      [src |-> n,
                       rec |-> line,
                       book_id |-> book_id_map[line.book_id],
                       genre |-> IF line.book_id \in DOMAIN genres_dict
                                 THEN genres_dict[line.book_id]
                                 ELSE ""])
          ELSE before

\* the rows process_genres, run alone from start to end, writes for the
\* first n lines of the genres source
RECURSIVE C20_GenresSequential(_)
C20_GenresSequential(n) ==
  IF n = 0 THEN <<>>
  ELSE LET line == genres_src[n]
           before == C20_GenresSequential(n - 1)
       IN IF /\ line.ok
             /\ line.book_id \in kept_books_old
             /\ line.book_id \in DOMAIN book_id_map
          THEN Append(before,
                      [src |-> n,
                       rec |-> line,
                       book_id |-> book_id_map[line.book_id],
                       genre |-> line.genre])
          ELSE before

\* the lines the worker of process_genres has gone through
C20_GenresDone ==
  IF genres_pc = "genres_loop" THEN pos - 1
  ELSE IF genres_pc = "done" /\ genres_exists THEN Len(genres_src)
  ELSE 0

C20_SameAsSequential ==
  pc \in {"workers", "done"} =>
    /\ Len(books_file) = books_read
    /\ books_out = C20_BooksSequential(Len(books_file))
    /\ genres_out = C20_GenresSequential(C20_GenresDone)
    /\ "books.csv" \in files <=>
         (books_exists /\ books_pc \in {"books_loop", "done"})
    /\ "genres.csv" \in files <=>
         (genres_exists /\ genres_pc \in {"genres_loop", "done"})

C20_OwnOutputOnly ==
  (pc = "workers" /\ pc' = "workers") =>
    /\ UNCHANGED <<kept_books_old, book_id_map, genres_dict, genres_src>>
    /\ books_pc' # books_pc \/ books_read' # books_read =>
         /\ UNCHANGED <<genres_out, pos, genres_pc>>
         /\ files' \subseteq files \cup {"books.csv"}
    /\ genres_pc' # genres_pc \/ pos' # pos =>
         /\ UNCHANGED <<books_out, books_read, books_file, books_pc>>
         /\ files' \subseteq files \cup {"genres.csv"}

\* C20: with process_books and process_genres on two workers whose
\* per-line steps interleave in any order, books.csv and genres.csv hold at
\* every moment the rows the function run alone writes for the lines it has
\* read, so at the end the same rows as the sequential run; no step of
\* either changes kept_books_old, book_id_map or the genre mapping, and a
\* step of one changes neither the output nor the position of the other.
C20_StagesIndependent ==
  [](C20_SameAsSequential) /\ [][C20_OwnOutputOnly]_vars

\* both loops are under way and each has written a row
C20_Witness ==
  /\ pc = "workers"
  /\ books_pc = "books_loop"
  /\ genres_pc = "genres_loop"
  /\ books_out # <<>>
  /\ genres_out # <<>>

\* ---- C21
\* the book_id values of the reviews accepted and written so far
C21_AcceptedBooks == {reviews_out[i].rec.book_id : i \in DOMAIN reviews_out}

C21_KeptIsAccepted ==
  /\ kept_books_old = C21_AcceptedBooks
  /\ kept_books_old = DOMAIN book_id_map
  /\ pc \in {"start", "pass1", "select"} => kept_books_old = {}

C21_IntersectionKeeps ==
  pc = "main_318" => kept_books_old' = kept_books_old

\* C21: in every state of a run of main kept_books_old is the set of the
\* book_id values of the reviews written so far and the key set of
\* book_id_map, it is empty until pass 2 starts, and the intersection of
\* line 318 of main leaves it as it was.
C21_KeptBooksAreAcceptedBooks ==
  [](C21_KeptIsAccepted) /\ [][C21_IntersectionKeeps]_vars

\* the intersection has been taken over a kept set of two books
C21_Witness ==
  /\ pc = "load_genres"
  /\ Cardinality(kept_books_old) = 2

\* ---- C22
\* main is in load_genres, process_books or process_genres
C22_InDependents ==
  pc \in {"load_genres", "lg_loop", "books", "books_loop", "genres",
          "genres_loop"}

C22_DependentsKeep ==
  C22_InDependents =>
    UNCHANGED <<kept_users_old, kept_books_old, user_id_map, book_id_map,
                next_user_id, next_book_id>>

\* C22: no step of load_genres, process_books or process_genres changes
\* kept_users_old, kept_books_old, user_id_map or book_id_map, nor the two
\* counters the next remapped identifiers come from.
C22_RootResultFinal == [][C22_DependentsKeep]_vars

\* the run ended after process_books read a book that is not kept and
\* process_genres wrote a row, with books kept
C22_Witness ==
  /\ pc = "done"
  /\ kept_books_old # {}
  /\ books_read = 1
  /\ books_out = <<>>
  /\ genres_out # <<>>

\* ---- C23
\* the place of a position of main in the text of the script
C23_Position(p) ==
  CASE p = "start" -> 0
    [] p = "pass1" -> 1
    [] p = "select" -> 2
    [] p = "pass2" -> 3
    [] p = "main_318" -> 4
    [] p = "load_genres" -> 5
    [] p = "lg_loop" -> 6
    [] p = "books" -> 7
    [] p = "books_loop" -> 8
    [] p = "genres" -> 9
    [] p = "genres_loop" -> 10
    [] p = "done" -> 11

\* the stage of a position: 1 counting root, 2 selecting root, 3 extracting
\* root, 4 deriving dependents, 5 done
C23_Stage(p) ==
  IF C23_Position(p) <= 1 THEN 1
  ELSE IF C23_Position(p) <= 3 THEN C23_Position(p)
  ELSE IF C23_Position(p) <= 10 THEN 4
  ELSE 5

\* the book_id values of the reviews of the whole source that pass 2 accepts
C23_AllKeptBooks ==
  {reviews_file[i].book_id :
     i \in {j \in DOMAIN reviews_file :
              reviews_file[j].ok /\ reviews_file[j].user_id \in top_users_old}}

C23_KeptComplete ==
  (reviews_exists /\ C23_Position(pc) >= 7) =>
    /\ kept_books_old = C23_AllKeptBooks
    /\ Len(reviews_out) =
         Cardinality({j \in DOMAIN reviews_file :
                        /\ reviews_file[j].ok
                        /\ reviews_file[j].user_id \in top_users_old})

C23_InOrder ==
  reviews_exists =>
    /\ C23_Position(pc') >= C23_Position(pc)
    /\ C23_Stage(pc') \in {C23_Stage(pc), C23_Stage(pc) + 1}
    /\ (pc \in {"pass1", "pass2"} /\ pc' # pc) => pos = Len(reviews_file) + 1
    /\ (pc = "genres_loop" /\ pc' # pc) => pos = Len(genres_src) + 1
    /\ (pc \in {"pass1", "pass2", "genres_loop"} /\ pc' = pc) =>
         pos' = pos + 1
    /\ (pc = "books_loop" /\ pc' = pc) => books_read' = books_read + 1

\* C23: a run of main over an existing reviews source moves through
\* counting root, selecting root, extracting root, deriving dependents and
\* done in this order and never back, a loop is left only behind the last
\* line of its source and takes the lines one by one, process_books starts
\* only when kept_books_old holds the book of every review pass 2 accepts,
\* and every run reaches done.
C23_StagesInOrder ==
  [](C23_KeptComplete) /\ [][C23_InOrder]_vars /\ <>(pc = "done")

\* a run over an existing source with a written review, a loaded genre
\* line and a read book has ended
C23_Witness ==
  /\ pc = "done"
  /\ reviews_exists
  /\ reviews_out # <<>>
  /\ genres_src # <<>>
  /\ books_read > 0

\* ---- C24
\* the book identifiers a books field lists, in its order
C24_Ids(books) ==
  LET listed == split(books, ";")
  IN [k \in DOMAIN listed |-> strip(listed[k])]

C24_Kept(b) == b \in kept_books

\* the row has a books field that lists a kept book
C24_HasKept(row) ==
  ~row.cut /\ SelectSeq(C24_Ids(row.books), C24_Kept) # <<>>

\* C24: the filtered authors.csv holds, in the order read, one row for
\* each row read whose books field lists a book of kept_books and no other
\* row; the books field of a written row lists the kept identifiers of the
\* row read, all of them and in their order, and every other field is as
\* read.
C24_AuthorsFiltered ==
  "authors.csv" \in DOMAIN out_dir =>
    LET written == out_dir["authors.csv"]
        source == SelectSeq(authors_read, C24_HasKept)
    IN /\ Len(written) = Len(source)
       /\ \A i \in DOMAIN written :
            /\ written[i].author_id = source[i].author_id
            /\ written[i].cut = source[i].cut
            /\ C24_Ids(written[i].books) =
                 SelectSeq(C24_Ids(source[i].books), C24_Kept)

\* filter_authors has written a row with one of its two books dropped and
\* skipped a row whose only book is not kept
C24_Witness ==
  /\ "authors.csv" \in DOMAIN out_dir
  /\ Len(out_dir["authors.csv"]) = 1
  /\ \E i \in DOMAIN authors_read :
       /\ Len(C24_Ids(authors_read[i].books)) = 2
       /\ Len(C24_Ids(out_dir["authors.csv"][1].books)) = 1
       /\ C24_HasKept(authors_read[i])
  /\ \E i \in DOMAIN authors_read :
       /\ strip(authors_read[i].books) # <<>>
       /\ ~C24_HasKept(authors_read[i])

\* ---- C25
C25_InBooks == pc \in {"k_books", "k_books_loop", "k_books_returned"}

C25_InReviews ==
  pc \in {"k_reviews", "k_reviews_files", "k_reviews_loop",
          "k_reviews_after", "k_reviews_returned"}

C25_InInteractions ==
  pc \in {"k_interactions", "k_csv_files", "k_csv_loop", "k_csv_after",
          "k_json_test", "k_json_files", "k_json_loop", "k_json_after",
          "k_interactions_returned", "k_crashed"}

C25_InAuthors == pc \in {"a_start", "a_loop", "a_emit", "a_done", "a_returned"}

\* the cap of the function that runs
C25_Cap ==
  IF C25_InBooks THEN MAX_BOOKS
  ELSE IF C25_InReviews THEN MAX_REVIEWS
  ELSE IF C25_InInteractions THEN MAX_INTERACTIONS
  ELSE MAX_AUTHORS

C25_WithinCap ==
  /\ rows_written <= C25_Cap
  /\ Len(seen_authors) <= MAX_AUTHORS
  /\ Len(authors_csv) <= MAX_AUTHORS
  /\ C25_InBooks => rows_written = count
  /\ (C25_InReviews \/ C25_InInteractions) => rows_written = total_count
  /\ C25_InAuthors => Len(seen_authors) = count

C25_StopsAtCap ==
  /\ ((C25_InBooks \/ C25_InReviews \/ C25_InInteractions)
        /\ rows_written >= C25_Cap) =>
       UNCHANGED <<lines_read, files_left, rows_written>>
  /\ (C25_InAuthors /\ count >= MAX_AUTHORS) =>
       UNCHANGED <<authors_in, seen_authors>>

\* C25: process_books, process_reviews and process_interactions never
\* have written more rows than MAX_BOOKS, MAX_REVIEWS and MAX_INTERACTIONS,
\* counted over all the files they read, process_authors never holds or
\* writes more than MAX_AUTHORS rows, and once the cap is reached no
\* further line is read and no further file opened.
C25_RowsWithinCap == [](C25_WithinCap) /\ [][C25_StopsAtCap]_vars

\* process_interactions returned with the cap reached, having skipped a
\* row and left unread interaction files of either kind
C25_Witness ==
  /\ pc = "k_interactions_returned"
  /\ rows_written = MAX_INTERACTIONS
  /\ lines_read > rows_written
  /\ files_left > 0
  /\ json_files > 0

\* ---- C26
\* the sum of the pass-1 counts of a set of users
RECURSIVE C26_SumCounts(_)
C26_SumCounts(users) ==
  IF users = {} THEN 0
  ELSE LET u == CHOOSE x \in users : TRUE
       IN CountOf(user_counts, u) + C26_SumCounts(users \ {u})

\* the reviews written for user u
C26_WrittenFor(u) ==
  Cardinality({i \in DOMAIN reviews_out : reviews_out[i].rec.user_id = u})

C27_OfSelected(row) == row.user_id \in top_user_ids

\* Step 3 of Extra_formattingcode.py has been taken
C27_Sampled == pc \in {"x_step4", "x_step5", "x_done"}

\* C27: the filtered interactions of the users the cumulative-count test
\* selects are never more than the budget, so Step 4 finds nothing to trim,
\* and the frame after Step 4 and the exported file hold exactly the
\* filtered interactions of the selected users, in the order of the frame.
C27_TrimNeverTaken ==
  /\ C27_Sampled =>
       /\ Len(sampled_interactions_df) <= budget
       /\ sampled_interactions_df = SelectSeq(filtered_df, C27_OfSelected)
  /\ pc = "x_done" =>
       sampled_csv = SelectSeq(filtered_df, C27_OfSelected)

\* the script ended with the budget used up to the last row and a user
\* with filtered interactions left out
C27_Witness ==
  /\ pc = "x_done"
  /\ budget > 0
  /\ Len(sampled_csv) = budget
  /\ \E i \in DOMAIN filtered_df : filtered_df[i].user_id \notin top_user_ids

====
